---- MODULE Spec2Model ----
(***************************************************************************)
(* OBS Print Progress overlay (print-progress.js): the status poll loop,   *)
(* its retry/backoff policy and the single-slot metadata cache.            *)
(*                                                                         *)
(* One invocation of fetchPrintStatus is a "poll".  JavaScript runs each   *)
(* synchronous segment of a handler to completion, so one action is one    *)
(* segment between two awaits of a network request; several polls may be   *)
(* suspended at an await at once.  Spec is the poll loop; of a render it   *)
(* keeps the #status text.  The layer and time values a render computes    *)
(* and the patch pass of the metadata are functions of their arguments:    *)
(* PureSpec calls them on arguments chosen at the start.                   *)
(* ChamberSpec is the chamber probe: the invocations of updateChamber, the *)
(* memorized sensor name and the stored directory of printer objects.      *)
(*                                                                         *)
(* Lengths are in micrometres and times in seconds, so that the decimal    *)
(* values of the source are integers here.  A JavaScript value that may be *)
(* null/undefined is a sequence: <<>> is null, <<n>> is the number n.      *)
(***************************************************************************)
EXTENDS Integers, Sequences, FiniteSets, Bags, TLC

VARIABLES
    initialized,      \* initialize(): "loading", "ok" (polling started), "configError"
    polls,            \* the bag of invocations of fetchPrintStatus in flight
    apiRetryCount,    \* let apiRetryCount
    apiRetryTimeout,  \* let apiRetryTimeout: 0 is null, else the id setTimeout returned
    timers,           \* the retry timers that are set and have not fired nor been cleared
    statusText,       \* #status textContent
    metadataCache,    \* const metadataCache = { filename, data, source }
    ev,               \* the handler segment that ran last, with its inputs
    call,             \* a call of one of the overlay's pure functions: its arguments
    ret,              \* what that call returned
    chamberObjectName,    \* let chamberObjectName
    objectListCache,      \* let objectListCache: null, or <<the list>>
    objectListFetchedAt,  \* let objectListFetchedAt
    clock,            \* Date.now(), in milliseconds since the page loaded
    chambers,         \* the bag of invocations of updateChamber in flight
    lastFetch,        \* the latest call time of a directory request that was stored
    cev,              \* the segment of updateChamber that ran last
    loadedFor,        \* thumbEl.dataset.loadedFor: null, or a filename
    thumbSrc,         \* thumbEl.src: null, or the file whose thumbnail it shows
    thumbShown,       \* thumbEl.style.display is "block"
    thumbLabel,       \* #thumbnailFilename textContent
    loads             \* the bag of calls of extractThumbnailFromGcode in flight

vars == <<initialized, polls, apiRetryCount, apiRetryTimeout, timers,
          statusText, metadataCache, ev, call, ret,
          chamberObjectName, objectListCache, objectListFetchedAt, clock,
          chambers, lastFetch, cev,
          loadedFor, thumbSrc, thumbShown, thumbLabel, loads>>

\* the variables of the thumbnail
thumb == <<loadedFor, thumbSrc, thumbShown, thumbLabel, loads>>

\* the variables of the chamber probe
chamber == <<chamberObjectName, objectListCache, objectListFetchedAt, clock,
             chambers, lastFetch, cev>>

\* the variables of the calls of pure functions
pure == <<call, ret>>

\* the variables of the poll loop
loop == <<initialized, polls, apiRetryCount, apiRetryTimeout, timers,
          statusText, metadataCache, ev>>

----------------------------------------------------------------------------
(* Bounds of the model *)

\* invocations of fetchPrintStatus that can be in flight at once
MaxPolls == 2

\* setTimeout ids available to the model (an id is reused once no variable
\* and no pending timer refers to it)
MaxTimers == 2

----------------------------------------------------------------------------
(* Program constants *)

maxApiRetries == 5

RetryBaseMs == 2000

RetryCapMs == 30000

----------------------------------------------------------------------------
(* JavaScript values *)

Null == <<>>

Num(n) == <<n>>

\* JS truthiness of a nullable number: null, undefined and 0 are falsy
Truthy(v) == v # Null /\ v[1] # 0

Max(a, b) == IF a >= b THEN a ELSE b

Min(a, b) == IF a <= b THEN a ELSE b

RECURSIVE Pow2(_)
Pow2(n) == IF n <= 0 THEN 1 ELSE 2 * Pow2(n - 1)

----------------------------------------------------------------------------
(* Filenames are sequences of characters *)

Digits == {"0", "1", "2", "3", "4", "5", "6", "7", "8", "9"}

DigitVal(c) ==
    CASE c = "0" -> 0 [] c = "1" -> 1 [] c = "2" -> 2 [] c = "3" -> 3
      [] c = "4" -> 4 [] c = "5" -> 5 [] c = "6" -> 6 [] c = "7" -> 7
      [] c = "8" -> 8 [] c = "9" -> 9

\* the index just after the maximal run of digits that starts at s[i]
RECURSIVE DigitRunEnd(_, _)
DigitRunEnd(s, i) ==
    IF i <= Len(s) /\ s[i] \in Digits THEN DigitRunEnd(s, i + 1) ELSE i

\* parseInt(s[i..j-1], 10)
RECURSIVE ParseInt(_, _, _)
ParseInt(s, i, j) ==
    IF j <= i THEN 0 ELSE 10 * ParseInt(s, i, j - 1) + DigitVal(s[j - 1])

\* Number("0." + s[i..j-1]) in micrometres (thousandths); at most 3 digits
FractionMicrons(s, i, j) ==
    LET d(k) == IF i + k < j THEN DigitVal(s[i + k]) ELSE 0
    IN  100 * d(0) + 10 * d(1) + d(2)

FileA == <<"a", "_", "0", ".", "2", "m", "m">>

FileB == <<"2", "h", "b">>

EmptyName == <<>>

Files == {FileA, FileB}

----------------------------------------------------------------------------
(* Metadata records: the fields of a metadata result the overlay reads *)

NoFields ==
    [layer_height |-> Null, first_layer_height |-> Null, layer_count |-> Null,
     object_height |-> Null, estimated_time |-> Null]

\* What GET /server/files/metadata answers for a file when it answers
\* (response.ok and a result object): data.result
ApiMeta(filename) ==
    IF filename = FileA
    THEN [NoFields EXCEPT !.object_height = Num(20000), !.estimated_time = Num(3600)]
    ELSE [NoFields EXCEPT !.layer_height = Num(300), !.layer_count = Num(50)]

\* What parseGcodeHeader returns for the first 64 KiB of a file when the
\* range request answers
HeaderMeta(filename) ==
    IF filename = FileA
    THEN [NoFields EXCEPT !.layer_height = Num(200), !.layer_count = Num(100),
                          !.object_height = Num(20000)]
    ELSE [NoFields EXCEPT !.layer_height = Num(300)]

\* The outcomes of the two metadata requests
MetaOutcomes == {"ok", "fail"}

----------------------------------------------------------------------------
(* Filename heuristics, lines 1017-1043 *)

Separators == {"_", " ", "."}

\* /[_\s\.]0\.(\d+)(?:[_\s\.]|mm|$)/i matches with its first character at s[i].
\* \d+ is greedy; giving digits back cannot help, since the character after
\* a shorter run is a digit, which none of the three endings accepts.
LayerHeightMatchAt(s, i) ==
    /\ i + 3 <= Len(s)
    /\ s[i] \in Separators
    /\ s[i + 1] = "0"
    /\ s[i + 2] = "."
    /\ s[i + 3] \in Digits
    /\ LET e == DigitRunEnd(s, i + 3)
       IN  \/ e > Len(s)
           \/ s[e] \in Separators
           \/ e + 1 <= Len(s) /\ s[e] \in {"m", "M"} /\ s[e + 1] \in {"m", "M"}

\* filename.match(...): the leftmost match, as Number(`0.${match[1]}`), or null
InferredHeight(s) ==
    LET hits == {i \in 1..Len(s) : LayerHeightMatchAt(s, i)}
    IN  IF hits = {} THEN Null
        ELSE LET i == CHOOSE k \in hits : \A j \in hits : k <= j
             IN  Num(FractionMicrons(s, i + 3, DigitRunEnd(s, i + 3)))

\* One optional group (?:(\d+)u)? tried at s[i]: <<captured value or Null, next index>>
DurationGroup(s, i, unit) ==
    LET e == DigitRunEnd(s, i)
    IN  IF e > i /\ e <= Len(s) /\ s[e] \in unit
        THEN <<Num(ParseInt(s, i, e)), e + 1>>
        ELSE <<Null, i>>

\* filename.match(/(?:(\d+)d)?(?:(\d+)h)?(?:(\d+)m)?/i): every group is
\* optional, so the pattern matches at index 0 of any string, and match()
\* returns that leftmost match: the groups capture only a prefix of the name.
TimeMatch(s) ==
    LET d == DurationGroup(s, 1, {"d", "D"})
        h == DurationGroup(s, d[2], {"h", "H"})
        m == DurationGroup(s, h[2], {"m", "M"})
    IN  <<d[1], h[1], m[1]>>

\* lines 1036-1041: the seconds the captured groups add up to, or Null when
\* no group captured
FilenameSeconds(s) ==
    LET t == TimeMatch(s)
        part(v, k) == IF v = Null THEN 0 ELSE v[1] * k
    IN  IF t[1] = Null /\ t[2] = Null /\ t[3] = Null THEN Null
        ELSE Num(part(t[1], 86400) + part(t[2], 3600) + part(t[3], 60))

\* The two matches, computed once for the filenames the polls report
HeightOfName == [f \in Files |-> InferredHeight(f)]

SecondsOfName == [f \in Files |-> FilenameSeconds(f)]

\* lines 1017-1032 applied to a metadata object d
PatchLayerHeight(d, filename) ==
    LET h == IF filename \in Files THEN HeightOfName[filename]
             ELSE InferredHeight(filename)
    IN  IF Truthy(d.layer_height) \/ h = Null THEN d
        ELSE IF ~(h[1] >= 50 /\ h[1] <= 500) THEN d
        ELSE LET d1 == [d EXCEPT !.layer_height = h]
             IN  IF Truthy(d1.object_height) /\ ~Truthy(d1.layer_count)
                 THEN LET firstLayer == IF Truthy(d1.first_layer_height)
                                        THEN d1.first_layer_height[1] ELSE h[1]
                          \* Math.round(x) is floor(x + 1/2), also for x < 0
                          calc == (2 * (d1.object_height[1] - firstLayer) + 3 * h[1])
                                      \div (2 * h[1])
                      IN  [d1 EXCEPT !.layer_count = Num(Max(1, calc))]
                 ELSE d1

\* (variant: line 1034 without its test of estimated_time)
PatchEstimatedTimeAlways(d, filename) ==
    LET secs == FilenameSeconds(filename)
    IN  IF secs = Null THEN d
        ELSE IF secs[1] > 0 THEN [d EXCEPT !.estimated_time = secs] ELSE d

\* lines 1034-1043 applied to a metadata object d
PatchEstimatedTime(d, filename) ==
    LET secs == IF filename \in Files THEN SecondsOfName[filename]
                ELSE FilenameSeconds(filename)
    IN  IF Truthy(d.estimated_time) \/ secs = Null THEN d
        ELSE IF secs[1] > 0 THEN [d EXCEPT !.estimated_time = secs] ELSE d

\* the two patch passes, in order
PatchFromFilename(d, filename) ==
    PatchEstimatedTime(PatchLayerHeight(d, filename), filename)

----------------------------------------------------------------------------
(* Errors thrown in fetchPrintStatus.  error.message is a sequence of text   *)
(* fragments; message.includes(x) asks whether x is one of them.             *)

Includes(msg, fragment) == \E i \in 1..Len(msg) : msg[i] = fragment

\* fetch() rejecting: Chromium, Firefox and WebKit word the TypeError differently
FetchRejections ==
    {<<"Failed to fetch">>,
     <<"NetworkError", " when attempting to fetch resource.">>,
     <<"Load failed">>}

\* line 491: new Error(`HTTP ${response.status}: ${response.statusText}`)
HttpError(code) ==
    CASE code = 401 -> <<"HTTP 401", ": ", "Unauthorized">>
      [] code = 403 -> <<"HTTP 403", ": ", "Forbidden">>
      [] code = 404 -> <<"HTTP 404", ": ", "Not Found">>
      [] OTHER -> <<"HTTP 500", ": ", "Internal Server Error">>

HttpErrors == {HttpError(c) : c \in {401, 403, 404, 500}}

\* response.json() rejecting, or data.result missing, after an OK response
BodyError == <<"Unexpected token < in JSON at position 0">>

\* (variant: the reset of line 493 left out)
CountKept(count) == count

\* line 493: apiRetryCount = 0 once the response is OK
CountAfterOk(count) == 0

\* (variant: every failure is taken for a network failure)
IsNetworkErrorAny(msg) == TRUE

\* lines 661-664
IsNetworkError(msg) ==
    \/ Includes(msg, "Failed to fetch")
    \/ Includes(msg, "NetworkError")
    \/ Includes(msg, "TypeError")

\* (variant: the budget test of line 666 off by one)
CanRetryOffByOne(msg, count) == IsNetworkError(msg) /\ count <= maxApiRetries

\* (variant: the budget test of line 666 left out)
CanRetryNoBudget(msg, count) == IsNetworkError(msg)

\* line 666: the condition under which the catch block schedules a retry
CanRetry(msg, count) == IsNetworkError(msg) /\ count < maxApiRetries

\* (variant: the cap of line 668 left out)
RetryDelayUncapped(count) == RetryBaseMs * Pow2(count - 1)

\* line 668: the delay for the retry numbered count (already incremented)
RetryDelay(count) == Min(RetryBaseMs * Pow2(count - 1), RetryCapMs)

\* lines 678-686: the text of a failure that is not retried
TerminalText(msg) ==
    IF Includes(msg, "HTTP 401") \/ Includes(msg, "HTTP 403")
    THEN "Authentication Error"
    ELSE IF Includes(msg, "HTTP 404") THEN "API Not Found"
    ELSE "Unreachable"

\* line 531: state.charAt(0).toUpperCase() + state.slice(1)
Capitalize(state) ==
    CASE state = "printing" -> "Printing"
      [] state = "paused" -> "Paused"
      [] state = "standby" -> "Standby"
      [] OTHER -> state

Text(t) == [text |-> t, n |-> 0]

----------------------------------------------------------------------------
(* Timers *)

TimerIds == 1..MaxTimers

\* (variant: the clearTimeout of line 673 left out)
ClearNothing(ts, id) == ts

\* line 673: if (apiRetryTimeout) clearTimeout(apiRetryTimeout)
ClearTimeout(ts, id) == {t \in ts : t.id # id}

----------------------------------------------------------------------------------------------------------------------------------------
(* Polls.  An invocation of fetchPrintStatus in flight is the record of the  *)
(* await it is suspended at (pc) and of its local variables: the print state *)
(* and filename of its status response.  ov records that its metadata        *)
(* resolution overlapped another one.  Invocations have no identity, so the  *)
(* ones in flight form a bag.                                                *)

\* What a status response reports: print_stats.state and print_stats.filename
StatusInputs ==
    {[state |-> "printing", filename |-> f] : f \in Files \cup {EmptyName}}
        \cup {[state |-> "paused", filename |-> FileA],
              [state |-> "standby", filename |-> EmptyName]}

\* suspended at the status request, line 487
AtStatus == [pc |-> "status", state |-> "", filename |-> EmptyName, ov |-> FALSE]

Poll(pc, st, ov) == [pc |-> pc, state |-> st.state, filename |-> st.filename, ov |-> ov]

InFlight == BagToSet(polls)

\* how many of the invocations in the bag b are suspended at the await pc
NumAt(b, pc) == BagCardinality([r \in {x \in BagToSet(b) : x.pc = pc} |-> b[r]])

IsResolving(r) == r.pc \in {"metaApi", "metaGcode"}

Resolving == {r \in InFlight : IsResolving(r)}

\* the polls with r removed and r2 added
Moved(r, r2) == (polls (-) SetToBag({r})) (+) SetToBag({r2})

\* the polls with r removed
Ended(r) == polls (-) SetToBag({r})

\* lines 485-489: fetchPrintStatus is called and suspends at its status request
StartPoll ==
    /\ BagCardinality(polls) < MaxPolls
    /\ polls' = polls (+) SetToBag({AtStatus})

\* every resolution in flight is marked as overlapped
MarkOverlapped(b) ==
    LET mark(r) == IF IsResolving(r) THEN [r EXCEPT !.ov = TRUE] ELSE r
        unmark(r) == [r EXCEPT !.ov = FALSE]
    IN  [r2 \in {mark(r) : r \in BagToSet(b)} |->
            IF IsResolving(r2) THEN CopiesIn(r2, b) + CopiesIn(unmark(r2), b)
            ELSE CopiesIn(r2, b)]

NoEv == [op |-> "none"]

\* no pure function is being called
NoCall == [fn |-> "none"]

NotReturned == [returned |-> FALSE]

TypeOK ==
    /\ initialized \in {"loading", "ok", "configError"}
    /\ apiRetryCount \in Nat
    /\ apiRetryTimeout \in 0..MaxTimers
    /\ \A t \in timers : t.id \in TimerIds
    /\ IsABag(polls)
    /\ BagCardinality(polls) <= MaxPolls
    /\ \A r \in InFlight :
          r.pc \in {"status", "metaApi", "metaGcode", "motion", "chamber"}

\* lines 78-80, and no updateChamber in flight
ChamberStart ==
    /\ chamberObjectName = Null
    /\ objectListCache = Null
    /\ objectListFetchedAt = 0
    /\ clock = 0
    /\ chambers = EmptyBag
    /\ lastFetch = Null
    /\ cev = NoEv

Init ==
    /\ initialized = "loading"
    /\ polls = EmptyBag
    /\ apiRetryCount = 0
    /\ apiRetryTimeout = 0
    /\ timers = {}
    /\ statusText = Text("--")
    /\ metadataCache = [filename |-> Null, data |-> Null, source |-> "null"]
    /\ ev = NoEv
    /\ call = NoCall
    /\ ret = NotReturned
    /\ ChamberStart
    /\ loadedFor = Null
    /\ thumbSrc = Null
    /\ thumbShown = FALSE
    /\ thumbLabel = <<"-", "-">>
    /\ loads = EmptyBag

----------------------------------------------------------------------------
(* initialize, lines 407-424 *)

\* loadConfig() found a config: the first poll starts and the interval is set
InitializeOk ==
    /\ initialized = "loading"
    /\ initialized' = "ok"
    /\ StartPoll
    /\ ev' = NoEv
    /\ UNCHANGED <<apiRetryCount, apiRetryTimeout, timers, statusText, metadataCache>>
    /\ UNCHANGED <<pure, chamber, thumb>>

\* loadConfig() found none: showConfigError, and no polling is started
InitializeNoConfig ==
    /\ initialized = "loading"
    /\ initialized' = "configError"
    /\ statusText' = Text("Config Error")
    /\ ev' = NoEv
    /\ UNCHANGED <<polls, apiRetryCount, apiRetryTimeout, timers, metadataCache>>
    /\ UNCHANGED <<pure, chamber, thumb>>

\* (variant: the interval is cleared once a failure is shown as terminal)
IntervalTickUntilError ==
    /\ initialized = "ok"
    /\ statusText.text \notin {"Unreachable", "Authentication Error", "API Not Found"}
    /\ StartPoll
    /\ ev' = NoEv
    /\ UNCHANGED <<initialized, apiRetryCount, apiRetryTimeout, timers, statusText,
                   metadataCache>>
    /\ UNCHANGED <<pure, chamber, thumb>>

\* line 420: setInterval(fetchPrintStatus, UPDATE_INTERVAL) fires; nothing
\* ever clears the interval
IntervalTick ==
    /\ initialized = "ok"
    /\ StartPoll
    /\ ev' = NoEv
    /\ UNCHANGED <<initialized, apiRetryCount, apiRetryTimeout, timers, statusText,
                   metadataCache>>
    /\ UNCHANGED <<pure, chamber, thumb>>

\* line 674: the retry timer t fires and calls fetchPrintStatus; the variable
\* apiRetryTimeout keeps the id of the fired timer
RetryFire(t) ==
    /\ t \in timers
    /\ timers' = timers \ {t}
    /\ StartPoll
    /\ ev' = NoEv
    /\ UNCHANGED <<initialized, apiRetryCount, apiRetryTimeout, statusText,
                   metadataCache>>
    /\ UNCHANGED <<pure, chamber, thumb>>

----------------------------------------------------------------------------
(* fetchPrintStatus: the catch block, lines 657-690 *)

\* The catch block run with error message msg while apiRetryCount is count
\* (count is what line 493 left when the error is thrown after it).
CatchBlock(msg, count) ==
    IF CanRetry(msg, count)
    THEN LET cleared == IF apiRetryTimeout # 0
                        THEN ClearTimeout(timers, apiRetryTimeout) ELSE timers
             free == TimerIds \ {t.id : t \in cleared}
         IN  /\ free # {}
             /\ apiRetryCount' = count + 1
             /\ statusText' = [text |-> "Retrying", n |-> count + 1]
             /\ LET id == CHOOSE i \in free : \A j \in free : i <= j
                IN  /\ timers' = cleared \cup {[id |-> id, delay |-> RetryDelay(count + 1)]}
                    /\ apiRetryTimeout' = id
    ELSE /\ apiRetryCount' = count
         /\ statusText' = Text(TerminalText(msg))
         /\ UNCHANGED <<timers, apiRetryTimeout>>

\* The status request of a poll fails: fetch rejects, or the response is not
\* OK and line 491 throws
StatusFail(msg) ==
    /\ AtStatus \in InFlight
    /\ CatchBlock(msg, apiRetryCount)
    /\ polls' = Ended(AtStatus)
    /\ ev' = [op |-> "fail", msg |-> msg, prev |-> apiRetryCount,
              cancelled |-> Cardinality(timers \ timers')]
    /\ UNCHANGED <<initialized, metadataCache>>
    /\ UNCHANGED <<pure, chamber, thumb>>

\* The response is OK (line 493 resets the counter) but its body cannot be
\* read as a status: the error lands in the same catch block
StatusBadBody ==
    /\ AtStatus \in InFlight
    /\ CatchBlock(BodyError, CountAfterOk(apiRetryCount))
    /\ polls' = Ended(AtStatus)
    /\ ev' = [op |-> "badBody", prev |-> apiRetryCount]
    /\ UNCHANGED <<initialized, metadataCache>>
    /\ UNCHANGED <<pure, chamber, thumb>>

----------------------------------------------------------------------------
(* ensureMetadataLoaded, lines 1008-1044, and fetchMetadata, lines 1046-1062 *)

\* (variant: the test of the cache, line 1010, left out)
NeedsResolveAlways(filename, state, cache) ==
    /\ state = "printing"
    /\ filename # EmptyName

\* lines 1009-1010: the call goes on to resolve metadata (it is not a no-op)
NeedsResolve(filename, state, cache) ==
    /\ state = "printing"
    /\ filename # EmptyName
    /\ ~(cache.filename = filename /\ cache.data # Null)

\* (variant: the G-code header is asked first)
FirstSourceHeader == "metaGcode"

\* line 1051: the request fetchMetadata awaits first is the metadata API's
FirstSource == "metaApi"

\* fetchMetadata's result: Null, or the data of the first source that answered
MetaResult(data, source) == [data |-> data, source |-> source]

\* (variant: the new result is merged over the fields the cache held)
StoreMetadataMerged(cache, filename, metaResult) ==
    IF metaResult = Null
    THEN [cache EXCEPT !.data = Null, !.source = "null"]
    ELSE LET old == IF cache.data = Null THEN NoFields ELSE cache.data[1]
             new == metaResult.data
             merged == [k \in DOMAIN NoFields |-> IF new[k] # Null THEN new[k] ELSE old[k]]
         IN  [cache EXCEPT !.data = <<PatchFromFilename(merged, filename)>>,
                           !.source = metaResult.source]

\* lines 1014-1043: the cache after fetchMetadata returned metaResult to the
\* call for filename: data and source are replaced, then patched from the name
StoreMetadata(cache, filename, metaResult) ==
    IF metaResult = Null
    THEN [cache EXCEPT !.data = Null, !.source = "null"]
    ELSE [cache EXCEPT !.data = <<PatchFromFilename(metaResult.data, filename)>>,
                       !.source = metaResult.source]

----------------------------------------------------------------------------
(* fetchPrintStatus: the try block, lines 486-655 *)

\* The status request of a poll answers OK with print state and filename st:
\* the counter is reset and ensureMetadataLoaded runs up to its first await
StatusOk(st) ==
    /\ AtStatus \in InFlight
    /\ apiRetryCount' = CountAfterOk(apiRetryCount)
    /\ IF NeedsResolve(st.filename, st.state, metadataCache)
       THEN /\ metadataCache' = [metadataCache EXCEPT !.filename = st.filename]
            /\ polls' = MarkOverlapped(Ended(AtStatus))
                            (+) SetToBag({Poll(FirstSource, st, Resolving # {})})
       ELSE /\ metadataCache' = metadataCache
            /\ polls' = Moved(AtStatus, Poll("motion", st, FALSE))
    /\ ev' = [op |-> "ok", prev |-> apiRetryCount, state |-> st.state,
              filename |-> st.filename]
    /\ UNCHANGED <<initialized, apiRetryTimeout, timers, statusText>>
    /\ UNCHANGED <<pure, chamber, thumb>>

\* fetchMetadata returned metaResult to poll r: ensureMetadataLoaded stores it
\* and returns, and fetchPrintStatus goes on to updateMotionStats
MetadataDone(r, metaResult) ==
    /\ metadataCache' = StoreMetadata(metadataCache, r.filename, metaResult)
    /\ polls' = Moved(r, [r EXCEPT !.pc = "motion", !.ov = FALSE])
    /\ ev' = [op |-> "metaDone", filename |-> r.filename,
              source |-> IF metaResult = Null THEN "null" ELSE metaResult.source,
              ov |-> r.ov, replaced |-> metadataCache.data, at |-> r.pc]

\* The metadata API request of poll r answers (lines 1051-1052, 1064-1076)
MetaApiResp(r, outcome) ==
    /\ r \in InFlight
    /\ r.pc = "metaApi"
    /\ IF outcome = "ok"
       THEN MetadataDone(r, MetaResult(ApiMeta(r.filename), "api"))
       ELSE /\ polls' = Moved(r, [r EXCEPT !.pc = "metaGcode"])
            /\ ev' = [op |-> "apiMiss"]
            /\ UNCHANGED metadataCache
    /\ UNCHANGED <<initialized, apiRetryCount, apiRetryTimeout, timers, statusText>>
    /\ UNCHANGED <<pure, chamber, thumb>>

\* The G-code range request of poll r answers (lines 1054-1057, 1078-1091)
MetaGcodeResp(r, outcome) ==
    /\ r \in InFlight
    /\ r.pc = "metaGcode"
    /\ IF outcome = "ok"
       THEN MetadataDone(r, MetaResult(HeaderMeta(r.filename), "gcode-header"))
       ELSE MetadataDone(r, Null)
    /\ UNCHANGED <<initialized, apiRetryCount, apiRetryTimeout, timers, statusText>>
    /\ UNCHANGED <<pure, chamber, thumb>>

\* updateMotionStats (lines 697-729) returns to poll r; its failures are
\* swallowed, and updateChamber is called
MotionDone(r) ==
    /\ r \in InFlight
    /\ r.pc = "motion"
    /\ polls' = Moved(r, [r EXCEPT !.pc = "chamber"])
    /\ ev' = NoEv
    /\ UNCHANGED <<initialized, apiRetryCount, apiRetryTimeout, timers, statusText,
                   metadataCache>>
    /\ UNCHANGED <<pure, chamber, thumb>>

\* How a request of updateChamber ends: "ok" is a response that is OK,
\* "fail" a rejected fetch or a response that is not OK
ChamberOutcomes == {"ok", "fail"}

\* A request poll r awaits inside updateChamber, the object list (line 811)
\* or a sensor query (line 828), ends and fetchChamberTemp goes on to its next
\* query: fetchObjectList and querySingleObject return null on a failure.
\* Which queries follow depends on chamberObjectName, the object list and
\* the candidates, which are left open here.
ChamberProbe(r, outcome) ==
    /\ r \in InFlight
    /\ r.pc = "chamber"
    /\ ev' = IF outcome = "fail" THEN [op |-> "probeFail"] ELSE NoEv
    /\ UNCHANGED <<initialized, polls, apiRetryCount, apiRetryTimeout, timers,
                   statusText, metadataCache>>
    /\ UNCHANGED <<pure, chamber, thumb>>

\* (variant: a failed request of updateChamber is thrown into the catch block)
RenderOrThrow(r, outcome) ==
    /\ r \in InFlight
    /\ r.pc = "chamber"
    /\ IF outcome = "fail"
       THEN CatchBlock(<<"Failed to fetch">>, apiRetryCount)
       ELSE /\ statusText' = Text(Capitalize(r.state))
            /\ UNCHANGED <<apiRetryCount, apiRetryTimeout, timers>>
    /\ polls' = Ended(r)
    /\ ev' = [op |-> "render", state |-> r.state, failed |-> outcome = "fail"]
    /\ UNCHANGED <<initialized, metadataCache>>
    /\ UNCHANGED <<pure, chamber, thumb>>

\* The last request of updateChamber (lines 753-769) ends, it returns to poll
\* r, which renders the print state (lines 528-655) and ends
Render(r, outcome) ==
    /\ r \in InFlight
    /\ r.pc = "chamber"
    /\ statusText' = Text(Capitalize(r.state))
    /\ polls' = Ended(r)
    /\ ev' = [op |-> "render", state |-> r.state, failed |-> outcome = "fail"]
    /\ UNCHANGED <<initialized, apiRetryCount, apiRetryTimeout, timers, metadataCache>>
    /\ UNCHANGED <<pure, chamber, thumb>>

----------------------------------------------------------------------------

\* A request some poll is suspended at ends, by a response or by the
\* transport's failure, and the poll runs on to its next stage or to its end
PollAdvance ==
    \/ \E msg \in FetchRejections \cup HttpErrors : StatusFail(msg)
    \/ StatusBadBody
    \/ \E st \in StatusInputs : StatusOk(st)
    \/ \E r \in InFlight :
          \/ \E outcome \in MetaOutcomes : MetaApiResp(r, outcome)
          \/ \E outcome \in MetaOutcomes : MetaGcodeResp(r, outcome)
          \/ MotionDone(r)
          \/ \E outcome \in ChamberOutcomes : Render(r, outcome)

\* A request some poll is suspended at ends
PollStep ==
    \/ PollAdvance
    \/ \E r \in InFlight : \E outcome \in ChamberOutcomes : ChamberProbe(r, outcome)

Next ==
    \/ InitializeOk
    \/ InitializeNoConfig
    \/ IntervalTick
    \/ \E t \in timers : RetryFire(t)
    \/ PollStep

Spec == Init /\ [][Next]_vars

\* setInterval fires whatever the polls in flight do (the model's cap on
\* them apart, hence SF), and a pending request ends; fetchChamberTemp issues
\* at most one query per candidate and one for the memorised name, so a poll
\* does not stay in updateChamber for ever
Fairness ==
    /\ SF_vars(IntervalTick)
    /\ WF_vars(PollAdvance)

FairSpec == Spec /\ Fairness

----------------------------------------------------------------------------
(* Calls of the overlay's pure functions: the arguments are chosen at the    *)
(* start and one action per function applies it.                              *)

Return(v) == [returned |-> TRUE, value |-> v]

\* a name with a duration at its start and a layer height at its end
FileC == <<"2", "h", "_", "0", ".", "2">>

\* Metadata objects as a source may hand them to the patch passes; 0 stands
\* for the values JavaScript reads as missing
PatchInputs ==
    [layer_height : {Null, Num(0), Num(300)},
     first_layer_height : {Null, Num(250)},
     layer_count : {Null, Num(0), Num(50)},
     object_height : {Null, Num(20000)},
     estimated_time : {Null, Num(0), Num(3600)}]

PatchCalls ==
    [fn : {"patch"}, d : PatchInputs, filename : Files \cup {FileC}]

\* lines 1017-1043 run on the object call.d for the name call.filename
PatchCall ==
    /\ call.fn = "patch"
    /\ ret = NotReturned
    /\ ret' = Return(PatchFromFilename(call.d, call.filename))
    /\ UNCHANGED <<call, loop, chamber, thumb>>

\* model_0.28mm_2h15m.gcode
FileD ==
    <<"m", "o", "d", "e", "l", "_", "0", ".", "2", "8", "m", "m", "_", "2",
    "h", "1", "5", "m", ".", "g", "c", "o", "d", "e">>

\* what fetchMetadata may hand back: null, or a record and its source; the
\* API may answer a record without any of the fields, the header parser
\* returns none without a geometry field
EnsureCalls ==
    [fn : {"ensureMetadataLoaded"},
     metaResult :
         {Null, MetaResult(NoFields, "api")}
             \cup {MetaResult(d, source) :
                      d \in {[NoFields EXCEPT !.object_height = Num(20000)],
                             [NoFields EXCEPT !.layer_height = Num(300),
                                              !.estimated_time = Num(3600)]},
                      source \in {"api", "gcode-header"}},
     filename : {FileC, FileD}]

\* lines 1012-1043 once fetchMetadata returned call.metaResult: the cache
\* the call for call.filename leaves
EnsureCall ==
    /\ call.fn = "ensureMetadataLoaded"
    /\ ret = NotReturned
    /\ ret' = Return(StoreMetadata([filename |-> call.filename, data |-> Null,
                                    source |-> "null"],
                                   call.filename, call.metaResult))
    /\ UNCHANGED <<call, loop, chamber, thumb>>

----------------------------------------------------------------------------
(* Layers, lines 923-1002.  The arithmetic is exact here, where the source   *)
(* computes in floating point.                                               *)

\* JSON null where it has to be told from undefined: Number(null) is 0 and
\* Number(undefined) is NaN.  Elsewhere Null stands for both.
JsNull == <<0, 0>>

Nullish(v) == v = Null \/ v = JsNull

\* obj.k, undefined where the object has no such property
Field(obj, k) == IF k \in DOMAIN obj THEN obj[k] ELSE Null

\* obj.k1 ?? obj.k2 ?? ... for the property names keys
RECURSIVE Coalesce(_, _)
Coalesce(obj, keys) ==
    IF Len(keys) = 1 \/ ~Nullish(Field(obj, keys[1]))
    THEN Field(obj, keys[1])
    ELSE Coalesce(obj, Tail(keys))

\* lines 999-1002, for undefined, null and numbers
asNumber(value) ==
    IF value = Null THEN Null
    ELSE IF value = JsNull THEN Num(0)
    ELSE value

\* lines 992-997
RECURSIVE firstNonNull(_)
firstNonNull(values) ==
    IF values = <<>> THEN Null
    ELSE IF Head(values) # Null THEN Head(values)
    ELSE firstNonNull(Tail(values))

\* Math.round(n / d) for d > 0: floor(n / d + 1/2)
RoundDiv(n, d) == (2 * n + d) \div (2 * d)

\* the layer height of line 945, in micrometres
FallbackLayerHeight == 200

LayerCountKeys == <<"layer_count", "total_layer", "total_layers">>

\* (variant: line 972 left out)
computeLayerFromMetadataUnclamped(currentZ, metadata) ==
    IF metadata = Null THEN [current |-> Null, total |-> Null]
    ELSE LET m == metadata[1]
             layerHeight == Field(m, "layer_height")
             firstLayerHeight == IF Truthy(Field(m, "first_layer_height"))
                                 THEN Field(m, "first_layer_height") ELSE layerHeight
             objectHeight == Field(m, "object_height")
             layerCount == asNumber(Coalesce(m, LayerCountKeys))
             total == IF Truthy(layerCount) THEN layerCount
                      ELSE IF Truthy(layerHeight) /\ Truthy(objectHeight)
                      THEN Num(Max(1, RoundDiv(objectHeight[1] - firstLayerHeight[1]
                                                   + layerHeight[1], layerHeight[1])))
                      ELSE Null
             current == IF Truthy(layerHeight) /\ currentZ # Null
                        THEN Num(Max(1, (currentZ[1] - firstLayerHeight[1])
                                            \div layerHeight[1] + 1))
                        ELSE Null
         IN  [current |-> current, total |-> total]

\* lines 954-976; currentZ is toolhead?.position?.[2]
computeLayerFromMetadata(currentZ, metadata) ==
    IF metadata = Null THEN [current |-> Null, total |-> Null]
    ELSE LET m == metadata[1]
             layerHeight == Field(m, "layer_height")
             firstLayerHeight == IF Truthy(Field(m, "first_layer_height"))
                                 THEN Field(m, "first_layer_height") ELSE layerHeight
             objectHeight == Field(m, "object_height")
             layerCount == asNumber(Coalesce(m, LayerCountKeys))
             total == IF Truthy(layerCount) THEN layerCount
                      ELSE IF Truthy(layerHeight) /\ Truthy(objectHeight)
                      THEN Num(Max(1, RoundDiv(objectHeight[1] - firstLayerHeight[1]
                                                   + layerHeight[1], layerHeight[1])))
                      ELSE Null
             calc == (currentZ[1] - firstLayerHeight[1]) \div layerHeight[1] + 1
             current == IF Truthy(layerHeight) /\ currentZ # Null
                        THEN IF Truthy(total) THEN Num(Min(total[1], Max(1, calc)))
                             ELSE Num(Max(1, calc))
                        ELSE Null
         IN  [current |-> current, total |-> total]

\* lines 978-990; progress is displayStatus.progress in percent, Null where
\* it is not a number
computeLayerFromProgress(progress, metadata) ==
    IF metadata = Null THEN [current |-> Null, total |-> Null]
    ELSE LET total == asNumber(Coalesce(metadata[1], LayerCountKeys))
         IN  IF ~Truthy(total) \/ progress = Null \/ progress[1] <= 0
             THEN [current |-> Null, total |-> IF Truthy(total) THEN total ELSE Null]
             ELSE [current |-> Num(Max(1, Min(total[1],
                                   RoundDiv(progress[1] * total[1], 100)))),
                   total |-> total]

SlicerCurrentKeys == <<"current_layer", "currentLayer", "layer_current", "layer">>

SlicerTotalKeys ==
    <<"total_layer", "totalLayer", "layer_count", "layerTotal", "totalLayers">>

\* lines 942-946
FallbackCurrent(currentZ, metadataLayer) ==
    IF currentZ # Null /\ currentZ[1] > 0 /\ ~Truthy(metadataLayer.current)
    THEN Num(Max(1, currentZ[1] \div FallbackLayerHeight))
    ELSE Null

\* (variant: the progress-derived layer is taken before the metadata-derived)
getLayerInfoProgressFirst(info, progress, currentZ, metadata) ==
    LET slicerCurrent == asNumber(Coalesce(info, SlicerCurrentKeys))
        slicerTotal == asNumber(Coalesce(info, SlicerTotalKeys))
        metadataLayer == computeLayerFromMetadata(currentZ, metadata)
        progressLayer == computeLayerFromProgress(progress, metadata)
        fallbackCurrent == FallbackCurrent(currentZ, metadataLayer)
    IN  [currentLayer |-> firstNonNull(<<slicerCurrent, progressLayer.current,
                                         metadataLayer.current, fallbackCurrent>>),
         totalLayer |-> firstNonNull(<<slicerTotal, progressLayer.total,
                                       metadataLayer.total>>)]

\* lines 923-952; info is printStats.info || {}
getLayerInfo(info, progress, currentZ, metadata) ==
    LET slicerCurrent == asNumber(Coalesce(info, SlicerCurrentKeys))
        slicerTotal == asNumber(Coalesce(info, SlicerTotalKeys))
        metadataLayer == computeLayerFromMetadata(currentZ, metadata)
        progressLayer == computeLayerFromProgress(progress, metadata)
        fallbackCurrent == FallbackCurrent(currentZ, metadataLayer)
    IN  [currentLayer |-> firstNonNull(<<slicerCurrent, metadataLayer.current,
                                         progressLayer.current, fallbackCurrent>>),
         totalLayer |-> firstNonNull(<<slicerTotal, metadataLayer.total,
                                       progressLayer.total>>)]

\* toolhead heights tried, beyond 0.1 mm and none: multiples of 0.6 mm up to
\* 0.6 * MaxZSteps
MaxZSteps == 3

ZValues == {Null, Num(100)} \cup {Num(600 * i) : i \in -1..MaxZSteps}

\* display_status.progress in percent
ProgressValues == {Null, Num(0), Num(12), Num(50), Num(100)}

\* print_stats.info: nothing set; Klipper's initial nulls; a slicer reporting
\* layers; a slicer reporting layer 0; other aliases; null under the last alias
SlicerInfos ==
    {<<>>,
     [current_layer |-> JsNull, total_layer |-> JsNull],
     [current_layer |-> Num(5), total_layer |-> Num(40)],
     [current_layer |-> Num(0), total_layer |-> Num(40)],
     [currentLayer |-> Num(7), totalLayers |-> Num(60)],
     [layer |-> JsNull, totalLayers |-> JsNull]}

\* metadataCache.data as the layer functions may find it
LayerMetas ==
    {Null} \cup
    {<<m>> : m \in [layer_height : {Null, Num(200)},
                    first_layer_height : {Null, Num(300)},
                    layer_count : {Null, Num(0), Num(4), Num(100)},
                    object_height : {Null, Num(20000)},
                    estimated_time : {Null}]}

LayerCalls ==
    [fn : {"layers"}, info : SlicerInfos, progress : ProgressValues,
     currentZ : ZValues, metadata : LayerMetas]

\* lines 558 and 583-584: the layer values a printing poll computes
LayersCall ==
    /\ call.fn = "layers"
    /\ ret = NotReturned
    /\ ret' = Return([layers |-> getLayerInfo(call.info, call.progress,
                                              call.currentZ, call.metadata),
                      metadataLayer |-> computeLayerFromMetadata(call.currentZ,
                                                                 call.metadata),
                      progressLayer |-> computeLayerFromProgress(call.progress,
                                                                 call.metadata)])
    /\ UNCHANGED <<call, loop, chamber, thumb>>

----------------------------------------------------------------------------
(* Times, lines 887-921, and the time values a poll renders.  Times are in   *)
(* whole seconds and the progress is in percent.                              *)

\* (variant: line 888 with progress <= 1)
computeRemainingUpToOne(progress, printDuration) ==
    IF progress > 0 /\ progress <= 100
    THEN Num((printDuration * 100) \div progress - printDuration)
    ELSE Null

\* lines 887-893: printDuration / progress - printDuration, in whole seconds
computeRemainingFromProgress(progress, printDuration) ==
    IF progress > 0 /\ progress < 100
    THEN Num((printDuration * 100) \div progress - printDuration)
    ELSE Null

\* lines 897-902
MetadataTimeKeys ==
    <<"estimated_time", "slicer_estimated_time", "slicer_time",
      "estimated_print_time", "slicer_estimated_duration", "print_time">>

\* lines 903-907
InfoTimeKeys ==
    <<"estimated_time", "slicer_time", "slicer_estimated_time",
      "estimated_print_time", "slicer_estimated_duration">>

\* lines 896-908: metadata?.k for the metadata keys, then slicerInfo?.k
TimeCandidates(metadata, slicerInfo) ==
    [i \in 1..Len(MetadataTimeKeys) |->
        IF metadata = Null THEN Null ELSE Field(metadata[1], MetadataTimeKeys[i])]
    \o [i \in 1..Len(InfoTimeKeys) |-> Field(slicerInfo, InfoTimeKeys[i])]

\* (variant: lines 910-913 returning the first candidate that is a number)
RECURSIVE FirstNumber(_)
FirstNumber(values) ==
    IF values = <<>> THEN Null
    ELSE IF asNumber(Head(values)) # Null THEN asNumber(Head(values))
    ELSE FirstNumber(Tail(values))

\* lines 910-914: the first candidate whose number is truthy and above 0
RECURSIVE FirstPositive(_)
FirstPositive(values) ==
    IF values = <<>> THEN Null
    ELSE LET num == asNumber(Head(values))
         IN  IF Truthy(num) /\ num[1] > 0 THEN num
             ELSE FirstPositive(Tail(values))

\* (variant: any number is taken, positive or not)
getSlicerTotalSecondsAnyNumber(metadata, slicerInfo) ==
    FirstNumber(TimeCandidates(metadata, slicerInfo))

\* lines 895-915
getSlicerTotalSeconds(metadata, slicerInfo) ==
    FirstPositive(TimeCandidates(metadata, slicerInfo))

\* lines 917-921: totalDuration ?? printDuration ?? null
getElapsedTime(printStats) ==
    firstNonNull(<<asNumber(printStats.total_duration),
                   asNumber(printStats.print_duration)>>)

\* line 550: Math.max(0, Math.min(1, Number(rawProgress) || 0)), in percent
ClampProgress(rawProgress) ==
    IF rawProgress = Null THEN 0 ELSE Max(0, Min(100, rawProgress[1]))

\* The values handed to setTimeValue for timeEstimate, timeSlicer and
\* timeTotal by a poll with print state state: lines 562-572 (printing),
\* 631-634 (paused), 645-648 (any other state)
RenderTimes(state, printStats, rawProgress, metadata) ==
    LET slicerTotal == getSlicerTotalSeconds(metadata, printStats.info)
    IN  IF state = "printing"
        THEN LET printDuration == IF Truthy(printStats.print_duration)
                                  THEN printStats.print_duration[1] ELSE 0
             IN  [timeEstimate |-> computeRemainingFromProgress(
                                       ClampProgress(rawProgress), printDuration),
                  timeSlicer |-> IF slicerTotal # Null
                                 THEN Num(Max(0, slicerTotal[1] - printDuration))
                                 ELSE Null,
                  timeTotal |-> getElapsedTime(printStats)]
        ELSE IF state = "paused"
        THEN [timeEstimate |-> Null, timeSlicer |-> slicerTotal,
              timeTotal |-> getElapsedTime(printStats)]
        ELSE [timeEstimate |-> Null, timeSlicer |-> slicerTotal, timeTotal |-> Null]

\* progress values, in percent, and durations, in seconds, tried for
\* computeRemainingFromProgress
RemainingCalls ==
    [fn : {"remaining"}, progress : {-10, 0, 1, 25, 50, 99, 100, 150},
     printDuration : {0, 600, 7200}]

RemainingCall ==
    /\ call.fn = "remaining"
    /\ ret = NotReturned
    /\ ret' = Return(computeRemainingFromProgress(call.progress, call.printDuration))
    /\ UNCHANGED <<call, loop, chamber, thumb>>

\* metadataCache.data as a poll may find it: empty, what a resolution of the
\* poll loop stores, and objects that use the other names for the time
TimeMetas ==
    {Null}
    \cup {<<PatchFromFilename(ApiMeta(f), f)>> : f \in Files}
    \cup {<<PatchFromFilename(HeaderMeta(f), f)>> : f \in Files}
    \cup {<<[estimated_time |-> Num(0), slicer_time |-> Num(1800),
             print_time |-> Num(900)]>>,
           <<[estimated_time |-> Num(0 - 5)]>>}

\* print_stats.info
TimeInfos ==
    {<<>>,
     [estimated_time |-> Num(5400)],
     [slicer_time |-> Num(0), estimated_print_time |-> Num(4000)]}

\* print_stats of a status response
PrintStatsInputs ==
    [state : {"printing", "paused", "standby", "complete"},
     info : TimeInfos,
     print_duration : {Null, Num(0), Num(600), Num(7200)},
     total_duration : {Null, Num(800)}]

TimesCalls ==
    [fn : {"times"}, printStats : PrintStatsInputs,
     rawProgress : {Null, Num(0 - 10), Num(0), Num(25), Num(100), Num(150)},
     metadata : TimeMetas]

\* the branch of lines 534-655 for the print state, as far as the times go
TimesCall ==
    /\ call.fn = "times"
    /\ ret = NotReturned
    /\ ret' = Return(RenderTimes(call.printStats.state, call.printStats,
                                 call.rawProgress, call.metadata))
    /\ UNCHANGED <<call, loop, chamber, thumb>>

----------------------------------------------------------------------------
(* parseGcodeHeader, lines 1093-1140.  A text is a sequence of lines and a   *)
(* line a sequence of characters.  Lengths are parsed to micrometres, times  *)
(* to whole seconds.                                                         *)

\* line.toLowerCase(), for the letters A to Z
ToLowerCase(s) ==
    LET Upper == <<"A", "B", "C", "D", "E", "F", "G", "H", "I", "J", "K", "L", "M",
                   "N", "O", "P", "Q", "R", "S", "T", "U", "V", "W", "X", "Y", "Z">>
        Lower == <<"a", "b", "c", "d", "e", "f", "g", "h", "i", "j", "k", "l", "m",
                   "n", "o", "p", "q", "r", "s", "t", "u", "v", "w", "x", "y", "z">>
    IN  [i \in 1..Len(s) |->
            IF \E k \in 1..26 : Upper[k] = s[i]
            THEN Lower[CHOOSE k \in 1..26 : Upper[k] = s[i]]
            ELSE s[i]]

\* \s, as far as the texts here have it
Whitespace == {" "}

\* rawLine.trim()
RECURSIVE Trim(_)
Trim(s) ==
    IF s = <<>> THEN s
    ELSE IF Head(s) \in Whitespace THEN Trim(Tail(s))
    ELSE IF s[Len(s)] \in Whitespace THEN Trim(SubSeq(s, 1, Len(s) - 1))
    ELSE s

\* the words of the patterns
Word ==
    [layer |-> <<"l", "a", "y", "e", "r">>,
     height |-> <<"h", "e", "i", "g", "h", "t">>,
     first |-> <<"f", "i", "r", "s", "t">>,
     initial |-> <<"i", "n", "i", "t", "i", "a", "l">>,
     count |-> <<"c", "o", "u", "n", "t">>,
     total |-> <<"t", "o", "t", "a", "l">>,
     totals |-> <<"t", "o", "t", "a", "l", "s">>,
     layers |-> <<"l", "a", "y", "e", "r", "s">>,
     estimated |-> <<"e", "s", "t", "i", "m", "a", "t", "e", "d">>,
     time |-> <<"t", "i", "m", "e">>,
     print |-> <<"p", "r", "i", "n", "t">>,
     maxz |-> <<"m", "a", "x", "z">>,
     max_z |-> <<"m", "a", "x", "_", "z">>,
     object |-> <<"o", "b", "j", "e", "c", "t">>,
     semitime |-> <<";", "t", "i", "m", "e">>,
     layer_height |-> <<"l", "a", "y", "e", "r", "_", "h", "e", "i", "g", "h",
         "t">>,
     total_layer_count |-> <<"t", "o", "t", "a", "l", "_", "l", "a", "y", "e",
         "r", "_", "c", "o", "u", "n", "t">>,
     printing_time_normal |-> <<"e", "s", "t", "i", "m", "a", "t", "e", "d",
         "_", "p", "r", "i", "n", "t", "i", "n", "g", "_", "t", "i", "m", "e",
         "(", "n", "o", "r", "m", "a", "l", ")">>]

\* a[_ ]?b for a in A and b in B
OptJoin(A, B) == {a \o m \o b : a \in A, m \in {<<>>, <<"_">>, <<" ">>}, b \in B}

\* the texts the part of each pattern before [:=\s] matches
KeyWords ==
    [layer_height |-> OptJoin({Word.layer}, {Word.height}),
     first_layer_height |-> OptJoin(OptJoin({Word.first}, {Word.layer}), {Word.height}),
     initial_layer_height |->
         OptJoin(OptJoin({Word.initial}, {Word.layer}), {Word.height}),
     layer_count |-> OptJoin({Word.layer}, {Word.count, Word.total, Word.totals}),
     total_layers |-> OptJoin({Word.total}, {Word.layer, Word.layers}),
     estimated_time |->
         OptJoin({Word.estimated}, {Word.time})
             \cup OptJoin(OptJoin({Word.estimated}, {Word.print}), {Word.time})
             \cup OptJoin({Word.print}, {Word.time}),
     object_height |->
         {Word.maxz, Word.max_z, Word.height} \cup OptJoin({Word.object}, {Word.height})]

\* [\d.] and [\d]
DecimalChars == Digits \cup {"."}

\* [:=\s]
SepChars == {":", "="} \cup Whitespace

StartsAt(s, i, w) ==
    /\ i + Len(w) - 1 <= Len(s)
    /\ \A k \in 1..Len(w) : s[i + k - 1] = w[k]

\* the index just after the maximal run of characters of class from s[i]
RECURSIVE RunEnd(_, _, _)
RunEnd(s, i, class) ==
    IF i <= Len(s) /\ s[i] \in class THEN RunEnd(s, i + 1, class) ELSE i

\* Number(s[i..j-1]) for a text of digits and dots, in thousandths; Null
\* for NaN (more than one dot, or no digit)
ParseNumber(s, i, j) ==
    LET dots == {k \in i..(j - 1) : s[k] = "."}
    IN  IF Cardinality(dots) > 1 \/ (j - i = 1 /\ dots # {}) THEN Null
        ELSE IF dots = {} THEN Num(1000 * ParseInt(s, i, j))
        ELSE LET dot == CHOOSE k \in dots : TRUE
             IN  Num(1000 * ParseInt(s, i, dot) + FractionMicrons(s, dot + 1, j))

\* where the capture of /W[:=\s]\s*(C+)/ begins when the match begins at
\* s[i], W one of words and C the class: \s* takes every space, since the
\* capture cannot begin with one
CaptureStarts(s, i, words, class) ==
    {j \in {RunEnd(s, i + Len(w) + 1, Whitespace) :
                w \in {x \in words : /\ StartsAt(s, i, x)
                                      /\ i + Len(x) <= Len(s)
                                      /\ s[i + Len(x)] \in SepChars}} :
        j <= Len(s) /\ s[j] \in class}

\* numberFromLine(line, /W[:=\s]\s*(C+)/): the leftmost match, its capture
\* the maximal run of the class
NumberFromLine(s, words, class) ==
    LET hits == {i \in 1..Len(s) : CaptureStarts(s, i, words, class) # {}}
    IN  IF hits = {} THEN Null
        ELSE LET i == CHOOSE k \in hits : \A h \in hits : k <= h
                 j == CHOOSE k \in CaptureStarts(s, i, words, class) : TRUE
             IN  ParseNumber(s, j, RunEnd(s, j, class))

\* where the capture of /;\s*word\s*=\s*(C+)/ begins when the match begins
\* at s[i], 0 if there is no match there
AssignCaptureStart(s, i, word, class) ==
    LET a == RunEnd(s, i + 1, Whitespace)
        b == RunEnd(s, a + Len(word), Whitespace)
        c == RunEnd(s, b + 1, Whitespace)
    IN  IF /\ s[i] = ";"
           /\ StartsAt(s, a, word)
           /\ b <= Len(s) /\ s[b] = "="
           /\ c <= Len(s) /\ s[c] \in class
        THEN c ELSE 0

\* numberFromLine(line, /;\s*word\s*=\s*(C+)/)
NumberFromAssignment(s, word, class) ==
    LET hits == {i \in 1..Len(s) : AssignCaptureStart(s, i, word, class) # 0}
    IN  IF hits = {} THEN Null
        ELSE LET i == CHOOSE k \in hits : \A h \in hits : k <= h
                 j == AssignCaptureStart(s, i, word, class)
             IN  ParseNumber(s, j, RunEnd(s, j, class))

\* a ?? b
OrElse(a, b) == IF a # Null THEN a ELSE b

\* thousandths to whole units
Units(v) == IF v = Null THEN Null ELSE Num(v[1] \div 1000)

\* lines 1105-1126: what the patterns find in one line; no field where the
\* line, trimmed, does not start with ";"
ScanLine(rawLine) ==
    LET line == Trim(rawLine)
        lower == ToLowerCase(line)
    IN  IF line = <<>> \/ line[1] # ";" THEN NoFields
        ELSE [layer_height |->
                  OrElse(NumberFromLine(lower, KeyWords.layer_height, DecimalChars),
                         NumberFromAssignment(lower, Word.layer_height, DecimalChars)),
              first_layer_height |->
                  OrElse(NumberFromLine(lower, KeyWords.first_layer_height, DecimalChars),
                         NumberFromLine(lower, KeyWords.initial_layer_height, DecimalChars)),
              layer_count |->
                  Units(OrElse(NumberFromLine(lower, KeyWords.layer_count, Digits),
                        OrElse(NumberFromLine(lower, KeyWords.total_layers, Digits),
                               NumberFromAssignment(lower, Word.total_layer_count, Digits)))),
              estimated_time |->
                  Units(OrElse(NumberFromLine(lower, KeyWords.estimated_time, DecimalChars),
                        OrElse(NumberFromLine(lower, {Word.semitime}, DecimalChars),
                               NumberFromAssignment(lower, Word.printing_time_normal,
                                                    DecimalChars)))),
              object_height |-> NumberFromLine(lower, KeyWords.object_height, DecimalChars)]

\* the lines the texts are made of:
\*   prusaHeight  "; layer_height = 0.2"
\*   count        ";layer_count: 100"
\*   curaTime     ";TIME:3600"
\*   maxZ         ";MAXZ:20.0"
\*   curaHeight   ";Layer height: 0.2"
\*   firstHeight  ";first_layer_height=0.3"
\*   move         "G1 Z0.2 F600"
\*   zeroCount    " ;layer_count=0 "
HeaderLine ==
    [prusaHeight |-> <<";", " ", "l", "a", "y", "e", "r", "_", "h", "e", "i",
         "g", "h", "t", " ", "=", " ", "0", ".", "2">>,
     count |-> <<";", "l", "a", "y", "e", "r", "_", "c", "o", "u", "n", "t",
         ":", " ", "1", "0", "0">>,
     curaTime |-> <<";", "T", "I", "M", "E", ":", "3", "6", "0", "0">>,
     maxZ |-> <<";", "M", "A", "X", "Z", ":", "2", "0", ".", "0">>,
     curaHeight |-> <<";", "L", "a", "y", "e", "r", " ", "h", "e", "i", "g",
         "h", "t", ":", " ", "0", ".", "2">>,
     firstHeight |-> <<";", "f", "i", "r", "s", "t", "_", "l", "a", "y", "e",
         "r", "_", "h", "e", "i", "g", "h", "t", "=", "0", ".", "3">>,
     move |-> <<"G", "1", " ", "Z", "0", ".", "2", " ", "F", "6", "0", "0">>,
     zeroCount |-> <<" ", ";", "l", "a", "y", "e", "r", "_", "c", "o", "u",
         "n", "t", "=", "0", " ">>]

HeaderLines == {HeaderLine[k] : k \in DOMAIN HeaderLine}

\* the patterns applied to each of the lines, once
ScanOfLine == [l \in HeaderLines |-> ScanLine(l)]

\* lines 1105-1127: each field keeps the first value a line gave it
RECURSIVE ScanFrom(_, _)
ScanFrom(meta, lines) ==
    IF lines = <<>> THEN meta
    ELSE LET found == ScanOfLine[Head(lines)]
         IN  ScanFrom([k \in DOMAIN NoFields |-> OrElse(meta[k], found[k])],
                      Tail(lines))

\* lines 1129-1136 without the test of line 1129 for a stated object_height
DeriveGeometryAlways(meta) ==
    IF Truthy(meta.layer_height) /\ Truthy(meta.layer_count)
    THEN [meta EXCEPT !.object_height =
             Num(meta.layer_height[1] * meta.layer_count[1])]
    ELSE meta

\* lines 1129-1136
DeriveGeometry(meta) ==
    LET m1 == IF /\ ~Truthy(meta.object_height)
                 /\ Truthy(meta.layer_height)
                 /\ Truthy(meta.layer_count)
              THEN [meta EXCEPT !.object_height =
                        Num(meta.layer_height[1] * meta.layer_count[1])]
              ELSE meta
    IN  IF /\ Truthy(m1.object_height)
           /\ Truthy(m1.layer_height)
           /\ ~Truthy(m1.layer_count)
        THEN LET firstLayer == IF Truthy(m1.first_layer_height)
                               THEN m1.first_layer_height[1] ELSE m1.layer_height[1]
             IN  [m1 EXCEPT !.layer_count =
                     Num(Max(1, RoundDiv(m1.object_height[1] - firstLayer
                                             + m1.layer_height[1], m1.layer_height[1])))]
        ELSE m1

\* lines 1138-1139
HeaderResult(meta) ==
    IF \/ Truthy(meta.layer_height)
       \/ Truthy(meta.first_layer_height)
       \/ Truthy(meta.layer_count)
       \/ Truthy(meta.object_height)
    THEN <<meta>>
    ELSE Null

\* lines 1093-1140, for the text made of lines
parseGcodeHeader(lines) ==
    IF lines = <<>> THEN Null
    ELSE HeaderResult(DeriveGeometry(ScanFrom(NoFields, lines)))

\* the lines of a text
MaxHeaderLines == 2

\* the texts: up to MaxHeaderLines of the lines
ParseCalls ==
    [fn : {"parseGcodeHeader"},
     text : UNION {[1..n -> HeaderLines] : n \in 0..MaxHeaderLines}]

\* parseGcodeHeader(text); scanned is meta as the loop of lines left it
ParseCall ==
    /\ call.fn = "parseGcodeHeader"
    /\ ret = NotReturned
    /\ ret' = [returned |-> TRUE, value |-> parseGcodeHeader(call.text),
               scanned |-> ScanFrom(NoFields, call.text)]
    /\ UNCHANGED <<call, loop, chamber, thumb>>

----------------------------------------------------------------------------
(* parseTempEntry, lines 840-849.  Temperatures are tenths of a degree on    *)
(* the wire and whole degrees once rounded.                                  *)

\* NaN, and every value Math.round turns into NaN (undefined apart)
NaN == <<0, 1>>

\* Math.round(v) for v in tenths: undefined and NaN give NaN, null gives 0
MathRound(v) ==
    IF v = Null \/ v = NaN THEN NaN
    ELSE IF v = JsNull THEN Num(0)
    ELSE Num(RoundDiv(v[1], 10))

\* Number.isFinite(v)
IsFinite(v) == Len(v) = 1

CurrentKeys == <<"temperature", "temp", "current", "temper">>

TargetKeys == <<"target", "target_temp", "target_temperature">>

\* lines 840-849
parseTempEntry(entry) ==
    IF entry = Null THEN Null
    ELSE LET current == MathRound(Coalesce(entry, CurrentKeys))
             targetRaw == Coalesce(entry, TargetKeys)
             \* line 846: Math.round(entry.temperature ?? entry.temp ?? 0)
             fallback == Coalesce(entry, <<"temperature", "temp">>)
             target == IF ~Nullish(targetRaw) THEN MathRound(targetRaw)
                       ELSE MathRound(IF Nullish(fallback) THEN Num(0) ELSE fallback)
         IN  IF ~IsFinite(current) THEN Null
             ELSE <<[current |-> current,
                     target |-> IF IsFinite(target) THEN target ELSE current]>>

\* the entries a sensor query may answer: each alias absent, null, not a
\* number, or a number of its own; or no entry
TempCalls ==
    [fn : {"parseTempEntry"},
     entry : [temperature : {Null, JsNull, NaN, Num(254)},
              temp : {Null, Num(246)},
              current : {Null, NaN, Num(305)},
              temper : {Null, JsNull, Num(198)},
              target : {Null, NaN, Num(600)},
              target_temp : {Null, Num(500)},
              target_temperature : {Null, Num(400)}] \cup {Null}]

\* parseTempEntry(call.entry)
TempCall ==
    /\ call.fn = "parseTempEntry"
    /\ ret = NotReturned
    /\ ret' = Return(parseTempEntry(call.entry))
    /\ UNCHANGED <<call, loop, chamber, thumb>>

Calls ==
    PatchCalls \cup LayerCalls \cup RemainingCalls \cup TimesCalls \cup ParseCalls
        \cup EnsureCalls \cup TempCalls

PureInit ==
    /\ initialized = "loading"
    /\ polls = EmptyBag
    /\ apiRetryCount = 0
    /\ apiRetryTimeout = 0
    /\ timers = {}
    /\ statusText = Text("--")
    /\ metadataCache = [filename |-> Null, data |-> Null, source |-> "null"]
    /\ ev = NoEv
    /\ call \in Calls
    /\ ret = NotReturned
    /\ ChamberStart
    /\ loadedFor = Null
    /\ thumbSrc = Null
    /\ thumbShown = FALSE
    /\ thumbLabel = <<"-", "-">>
    /\ loads = EmptyBag

PureNext ==
    \/ PatchCall
    \/ LayersCall
    \/ RemainingCall
    \/ TimesCall
    \/ ParseCall
    \/ EnsureCall
    \/ TempCall

PureSpec == PureInit /\ [][PureNext]_vars

----------------------------------------------------------------------------
(* The chamber probe, lines 66-80 and 753-838.  updateChamber is started by  *)
(* initialize (line 423) and by every poll whose status request answered     *)
(* (line 525); an invocation is suspended at one request at a time: the      *)
(* directory of printer objects, the query of the memorized object, or the   *)
(* query of a candidate.  ChamberSpec runs these invocations against a       *)
(* printer that may answer each request in any way, and a clock.             *)

\* lines 66-77
chamberCandidates ==
    <<
      \* temperature_sensor chamber
      <<"t", "e", "m", "p", "e", "r", "a", "t", "u", "r", "e", "_", "s", "e",
      "n", "s", "o", "r", " ", "c", "h", "a", "m", "b", "e", "r">>,
      \* temperature_sensor chamber_temp
      <<"t", "e", "m", "p", "e", "r", "a", "t", "u", "r", "e", "_", "s", "e",
      "n", "s", "o", "r", " ", "c", "h", "a", "m", "b", "e", "r", "_", "t",
      "e", "m", "p">>,
      \* temperature_sensor chamber-temp
      <<"t", "e", "m", "p", "e", "r", "a", "t", "u", "r", "e", "_", "s", "e",
      "n", "s", "o", "r", " ", "c", "h", "a", "m", "b", "e", "r", "-", "t",
      "e", "m", "p">>,
      \* temperature_sensor enclosure_temp
      <<"t", "e", "m", "p", "e", "r", "a", "t", "u", "r", "e", "_", "s", "e",
      "n", "s", "o", "r", " ", "e", "n", "c", "l", "o", "s", "u", "r", "e",
      "_", "t", "e", "m", "p">>,
      \* temperature_sensor enclosure
      <<"t", "e", "m", "p", "e", "r", "a", "t", "u", "r", "e", "_", "s", "e",
      "n", "s", "o", "r", " ", "e", "n", "c", "l", "o", "s", "u", "r", "e">>,
      \* temperature_host enclosure_temp
      <<"t", "e", "m", "p", "e", "r", "a", "t", "u", "r", "e", "_", "h", "o",
      "s", "t", " ", "e", "n", "c", "l", "o", "s", "u", "r", "e", "_", "t",
      "e", "m", "p">>,
      \* temperature_host enclosure
      <<"t", "e", "m", "p", "e", "r", "a", "t", "u", "r", "e", "_", "h", "o",
      "s", "t", " ", "e", "n", "c", "l", "o", "s", "u", "r", "e">>,
      \* temperature_sensor chamber2
      <<"t", "e", "m", "p", "e", "r", "a", "t", "u", "r", "e", "_", "s", "e",
      "n", "s", "o", "r", " ", "c", "h", "a", "m", "b", "e", "r", "2">>,
      \* temperature_sensor enclosure_upper
      <<"t", "e", "m", "p", "e", "r", "a", "t", "u", "r", "e", "_", "s", "e",
      "n", "s", "o", "r", " ", "e", "n", "c", "l", "o", "s", "u", "r", "e",
      "_", "u", "p", "p", "e", "r">>,
      \* temperature_sensor chamber_average
      <<"t", "e", "m", "p", "e", "r", "a", "t", "u", "r", "e", "_", "s", "e",
      "n", "s", "o", "r", " ", "c", "h", "a", "m", "b", "e", "r", "_", "a",
      "v", "e", "r", "a", "g", "e">>
    >>

\* line 808: how long a stored directory is used, in milliseconds
ObjectListTtl == 30000

\* the step of the clock, in milliseconds: a third of the lifetime
ClockStep == ObjectListTtl \div 3

\* the steps of the clock
MaxClockSteps == 3

\* invocations of updateChamber that can be in flight at once
MaxChambers == 2

\* the directories GET /printer/objects/list may answer.  One lists
\* extruder, temperature_sensor enclosure (the fifth candidate) and then
\* Temperature_Sensor Chamber (the first, as a configuration may spell it)
DirEnclosureFirst ==
    <<<<"e", "x", "t", "r", "u", "d", "e", "r">>,
      chamberCandidates[5],
      <<"T", "e", "m", "p", "e", "r", "a", "t", "u", "r", "e", "_", "S", "e",
      "n", "s", "o", "r", " ", "C", "h", "a", "m", "b", "e", "r">>>>

\* one without any candidate: extruder, heater_bed
DirNoSensor ==
    <<<<"e", "x", "t", "r", "u", "d", "e", "r">>,
      <<"h", "e", "a", "t", "e", "r", "_", "b", "e", "d">>>>

Directories == {DirEnclosureFirst, DirNoSensor}

\* lines 795-802 with the first entry of the directory that is a candidate
\* taken, in place of the entry of the first candidate
FirstEntryMatch(objects) ==
    LET lower == [k \in 1..Len(objects) |-> ToLowerCase(objects[k])]
        hits == {k \in 1..Len(objects) :
                    \E j \in 1..Len(chamberCandidates) :
                        lower[k] = ToLowerCase(chamberCandidates[j])}
    IN  IF hits = {} THEN Null
        ELSE objects[CHOOSE k \in hits : \A h \in hits : k <= h]

\* lines 795-802: the entry of the directory the first candidate that has one
\* finds, as the directory spells it; Null if no candidate has one
CandidateMatch(objects) ==
    LET lower == [k \in 1..Len(objects) |-> ToLowerCase(objects[k])]
        IndexOf(c) == {k \in 1..Len(objects) : lower[k] = ToLowerCase(c)}
        hits == {j \in 1..Len(chamberCandidates) : IndexOf(chamberCandidates[j]) # {}}
    IN  IF hits = {} THEN Null
        ELSE LET j == CHOOSE x \in hits : \A h \in hits : x <= h
                 idx == CHOOSE k \in IndexOf(chamberCandidates[j]) :
                            \A h \in IndexOf(chamberCandidates[j]) : k <= h
             IN  objects[idx]

\* the match of each directory, computed once
MatchOf == [d \in Directories |-> CandidateMatch(d)]

\* an invocation suspended at the directory request fetchObjectList issued
\* when Date.now() was at
AtList(at) == [pc |-> "list", at |-> at, name |-> Null, i |-> 0, failed |-> <<>>]

\* lines 773-774: suspended at the query of the object getChamberObjectName
\* returned
AtMemo(name) == [pc |-> "memo", at |-> 0, name |-> name, i |-> 0, failed |-> <<>>]

\* lines 780-781: suspended at the query of candidate i, after the queries
\* of the objects failed gave no reading in this loop
AtCandidate(i, failed) ==
    [pc |-> "candidate", at |-> 0, name |-> chamberCandidates[i], i |-> i,
     failed |-> failed]

\* lines 793-803 and 772-780 once fetchObjectList returned objects (Null, or
\* <<the list>>): the name memorized, if any, and where the invocation
\* suspends next
AfterDirectory(objects) ==
    LET found == IF objects = Null THEN Null ELSE MatchOf[objects[1]]
    IN  [selected |-> found,
         next |-> IF found # Null THEN AtMemo(found) ELSE AtCandidate(1, <<>>)]

\* updateChamber() up to its first request: lines 753-757, 772, 791-792 and
\* 807-808
updateChamber ==
    /\ BagCardinality(chambers) < MaxChambers
    /\ IF chamberObjectName # Null
       THEN /\ chambers' = chambers (+) SetToBag({AtMemo(chamberObjectName)})
            /\ cev' = [op |-> "memorized", name |-> chamberObjectName]
            /\ UNCHANGED chamberObjectName
       ELSE IF objectListCache # Null /\ clock - objectListFetchedAt < ObjectListTtl
       THEN LET a == AfterDirectory(objectListCache)
            IN  /\ chambers' = chambers (+) SetToBag({a.next})
                /\ chamberObjectName' = a.selected
                /\ cev' = [op |-> "cached", at |-> clock, last |-> lastFetch,
                           objects |-> objectListCache, selected |-> a.selected]
       ELSE /\ chambers' = chambers (+) SetToBag({AtList(clock)})
            /\ cev' = [op |-> "request", at |-> clock, last |-> lastFetch]
            /\ UNCHANGED chamberObjectName
    /\ UNCHANGED <<objectListCache, objectListFetchedAt, clock, lastFetch>>
    /\ UNCHANGED <<loop, pure, thumb>>

\* the directory request of invocation t answers: objects is <<the list>>,
\* or Null for a failure, a status that is not OK or a body without a list;
\* lines 811-823, then 793-803 and 772-780
ObjectListResponse(t, objects) ==
    /\ t \in BagToSet(chambers)
    /\ t.pc = "list"
    /\ LET a == AfterDirectory(objects)
       IN  /\ chambers' = (chambers (-) SetToBag({t})) (+) SetToBag({a.next})
           /\ chamberObjectName' =
                  IF a.selected # Null THEN a.selected ELSE chamberObjectName
           /\ cev' = [op |-> "listed", objects |-> objects, selected |-> a.selected]
    /\ IF objects # Null
       THEN /\ objectListCache' = objects
            /\ objectListFetchedAt' = t.at
            /\ lastFetch' = IF lastFetch = Null THEN Num(t.at)
                            ELSE Num(Max(lastFetch[1], t.at))
       ELSE UNCHANGED <<objectListCache, objectListFetchedAt, lastFetch>>
    /\ UNCHANGED clock
    /\ UNCHANGED <<loop, pure, thumb>>

\* the query of the memorized object answers, lines 774-776: a reading ends
\* fetchChamberTemp, anything else starts the loop of line 779
MemoQueryResponse(t, outcome) ==
    /\ t \in BagToSet(chambers)
    /\ t.pc = "memo"
    /\ IF outcome = "reading"
       THEN /\ chambers' = chambers (-) SetToBag({t})
            /\ cev' = [op |-> "done", temps |-> "reading", by |-> "memo",
                       name |-> t.name, before |-> chamberObjectName]
       ELSE /\ chambers' = (chambers (-) SetToBag({t})) (+) SetToBag({AtCandidate(1, <<>>)})
            /\ cev' = [op |-> "unreadable", name |-> t.name]
    /\ UNCHANGED <<chamberObjectName, objectListCache, objectListFetchedAt, clock,
                   lastFetch>>
    /\ UNCHANGED <<loop, pure, thumb>>

\* (variant: line 783 left out)
CandidateHitForgotten(t) == chamberObjectName

\* line 783
CandidateHit(t) == t.name

\* the query of candidate t.i answers, lines 781-787: a reading is memorized
\* and returned, anything else moves to the next candidate or, after the
\* last, returns null
CandidateQueryResponse(t, outcome) ==
    /\ t \in BagToSet(chambers)
    /\ t.pc = "candidate"
    /\ IF outcome = "reading"
       THEN /\ chambers' = chambers (-) SetToBag({t})
            /\ chamberObjectName' = CandidateHit(t)
            /\ cev' = [op |-> "done", temps |-> "reading", by |-> "candidate",
                       name |-> t.name, failed |-> t.failed,
                       before |-> chamberObjectName]
       ELSE IF t.i < Len(chamberCandidates)
       THEN /\ chambers' = (chambers (-) SetToBag({t}))
                               (+) SetToBag({AtCandidate(t.i + 1, Append(t.failed, t.name))})
            /\ cev' = [op |-> "unreadable", name |-> t.name]
            /\ UNCHANGED chamberObjectName
       ELSE /\ chambers' = chambers (-) SetToBag({t})
            /\ cev' = [op |-> "done", temps |-> "null", by |-> "candidate",
                       name |-> Null, failed |-> Append(t.failed, t.name),
                       before |-> chamberObjectName]
            /\ UNCHANGED chamberObjectName
    /\ UNCHANGED <<objectListCache, objectListFetchedAt, clock, lastFetch>>
    /\ UNCHANGED <<loop, pure, thumb>>

\* time passes
ClockTick ==
    /\ clock < MaxClockSteps * ClockStep
    /\ clock' = clock + ClockStep
    /\ UNCHANGED <<chamberObjectName, objectListCache, objectListFetchedAt,
                   chambers, lastFetch, cev>>
    /\ UNCHANGED <<loop, pure, thumb>>

ChamberNext ==
    \/ updateChamber
    \/ \E t \in BagToSet(chambers), objects \in {Null} \cup {<<d>> : d \in Directories} :
          ObjectListResponse(t, objects)
    \/ \E t \in BagToSet(chambers), outcome \in {"reading", "none"} :
          MemoQueryResponse(t, outcome)
    \/ \E t \in BagToSet(chambers), outcome \in {"reading", "none"} :
          CandidateQueryResponse(t, outcome)
    \/ ClockTick

ChamberSpec == Init /\ [][ChamberNext]_vars

----------------------------------------------------------------------------
(* The thumbnail, lines 462-471 and 594-623.  A printing poll that finds the *)
(* element loaded for another file starts extractThumbnailFromGcode and does *)
(* not await it; its completion runs whenever the request ends.  ThumbSpec   *)
(* runs the renders of the polls and these completions in any order.  What   *)
(* a query of an object or a load gives is "reading"/"image" or "none".      *)

\* loads that can be in flight at once
MaxLoads == 3

\* lines 462-471
hideThumbnail ==
    /\ thumbSrc' = Null
    /\ thumbShown' = FALSE
    /\ loadedFor' = Null
    /\ thumbLabel' = <<"-", "-">>

\* lines 594-623 of a poll that reports printing the file filename: the
\* element is marked and a load started unless it is marked for this file
\* (normalizeFilename, lines 1142-1145, returns a non-empty filename as it is)
RenderPrinting(filename) ==
    /\ loadedFor # filename
    /\ BagCardinality(loads) < MaxLoads
    /\ loadedFor' = filename
    /\ thumbShown' = FALSE
    /\ loads' = loads (+) SetToBag({filename})
    /\ UNCHANGED <<thumbSrc, thumbLabel>>
    /\ UNCHANGED <<loop, pure, chamber>>

\* lines 635, 654 and 689: a poll that reports a paused or idle printer, or
\* that ends in the catch block without a retry
RenderNotPrinting ==
    /\ hideThumbnail
    /\ UNCHANGED loads
    /\ UNCHANGED <<loop, pure, chamber>>

\* lines 607-621: the load for filename ends, with a thumbnail of more than
\* 100 characters ("image") or with none, a short one or an error ("none")
ThumbnailLoaded(filename, outcome) ==
    /\ filename \in BagToSet(loads)
    /\ loads' = loads (-) SetToBag({filename})
    /\ IF outcome = "image"
       THEN /\ thumbSrc' = filename
            /\ thumbShown' = TRUE
            /\ thumbLabel' = filename
            /\ UNCHANGED loadedFor
       ELSE hideThumbnail
    /\ UNCHANGED <<loop, pure, chamber>>

ThumbNext ==
    \/ \E filename \in Files \cup {FileC} : RenderPrinting(filename)
    \/ RenderNotPrinting
    \/ \E filename \in BagToSet(loads), outcome \in {"image", "none"} :
          ThumbnailLoaded(filename, outcome)

ThumbSpec == Init /\ [][ThumbNext]_vars

----------------------------------------------------------------------------
(* Claims *)

\* The delays of the retries numbered 1..5, in milliseconds
BackoffSchedule == <<2000, 4000, 8000, 16000, 30000>>

\* C1: a network-classified failure that finds the retry counter at k-1 < 5
\* leaves it at k and leaves one retry timer pending, the one apiRetryTimeout
\* names, with delay 2000, 4000, 8000, 16000, 30000 ms for k = 1..5.
C1_BackoffSequence ==
    (ev.op = "fail" /\ IsNetworkError(ev.msg) /\ ev.prev < 5) =>
        /\ apiRetryCount = ev.prev + 1
        /\ statusText = [text |-> "Retrying", n |-> ev.prev + 1]
        /\ \E t \in timers :
              /\ t.id = apiRetryTimeout
              /\ t.delay = BackoffSchedule[apiRetryCount]

C1_Witness ==
    /\ ev.op = "fail"
    /\ IsNetworkError(ev.msg)
    /\ ev.prev = 4
    /\ apiRetryCount = 5
    /\ \E t \in timers : t.delay = 30000

\* C2: a network-classified failure that finds the retry counter at 5 sets
\* no timer and clears none, leaves the counter at 5 and shows "Unreachable".
C2_BudgetExhausted ==
    [][(apiRetryCount = 5 /\ ev'.op = "fail" /\ IsNetworkError(ev'.msg)) =>
          /\ timers' = timers
          /\ apiRetryTimeout' = apiRetryTimeout
          /\ apiRetryCount' = 5
          /\ statusText' = Text("Unreachable")]_vars

C2_Witness ==
    /\ ev.op = "fail"
    /\ IsNetworkError(ev.msg)
    /\ ev.prev = 5
    /\ apiRetryCount = 5
    /\ statusText = Text("Unreachable")

\* C3: at most one retry timer is pending, and it is the one apiRetryTimeout
\* names, so that line 673 cancels it before the next one is set.
C3_OneRetryTimer ==
    /\ Cardinality(timers) <= 1
    /\ \A t \in timers : t.id = apiRetryTimeout

\* a failure set a retry timer while the previous one was pending and a poll
\* was in flight
C3_Witness ==
    /\ ev.op = "fail"
    /\ ev.cancelled = 1
    /\ Cardinality(timers) = 1
    /\ polls # EmptyBag

\* C4: the retry counter is within 0..5.
C4_CounterBounded == apiRetryCount \in 0..5

\* a failure found the counter at 5 while another poll was in flight
C4_Witness ==
    /\ ev.op = "fail"
    /\ IsNetworkError(ev.msg)
    /\ ev.prev = 5
    /\ apiRetryCount = 5
    /\ AtStatus \in InFlight

\* C5: after a status response that is OK the retry counter is 0.
C5_ResetOnSuccess == ev.op \in {"ok", "badBody"} => apiRetryCount = 0

C5_Witness ==
    /\ ev.op = "ok"
    /\ ev.prev = 5
    /\ apiRetryCount = 0

\* The status text of the HTTP failures that are reported as such
HttpStatusText(msg) ==
    CASE msg = HttpError(401) -> "Authentication Error"
      [] msg = HttpError(403) -> "Authentication Error"
      [] msg = HttpError(404) -> "API Not Found"

\* C6: a status response of HTTP 401, 403 or 404 sets no retry timer, clears
\* none, leaves the retry counter as it was and shows "Authentication Error"
\* (401, 403) or "API Not Found" (404).
C6_HttpErrorsTerminal ==
    [][(ev'.op = "fail" /\ ev'.msg \in {HttpError(401), HttpError(403), HttpError(404)}) =>
          /\ timers' = timers
          /\ apiRetryTimeout' = apiRetryTimeout
          /\ apiRetryCount' = apiRetryCount
          /\ statusText' = Text(HttpStatusText(ev'.msg))]_vars

\* a 404 arrives while retries remain and a retry timer is pending
C6_Witness ==
    /\ ev.op = "fail"
    /\ ev.msg = HttpError(404)
    /\ ev.prev = 2
    /\ apiRetryCount = 2
    /\ timers # {}
    /\ statusText = Text("API Not Found")

\* C7: once initialize has started the polling, the interval timer starts a
\* new poll again and again, whatever the polls before it ended in.
C7_PollingResumes == <>(initialized = "ok") => []<><<IntervalTick>>_vars

\* the retry budget is used up, a terminal failure is shown, no poll is in
\* flight and no retry timer is pending
C7_Witness ==
    /\ initialized = "ok"
    /\ apiRetryCount = 5
    /\ statusText = Text("Unreachable")
    /\ polls = EmptyBag
    /\ timers = {}

\* C8: at most one invocation of fetchPrintStatus is in flight.
C8_NoConcurrentPolls == BagCardinality(polls) <= 1

\* C9: at most one metadata resolution per filename is in flight.
C9_OneResolutionPerFile ==
    \A r1, r2 \in Resolving :
        r1.filename = r2.filename => r1 = r2 /\ CopiesIn(r1, polls) = 1

\* The metadata of a file as resolved from a source: what the source holds
\* for the file, with the gaps the filename fills
ResolvedFor(filename, source) ==
    CASE filename = FileA /\ source = "api" ->
            [layer_height |-> Num(200), first_layer_height |-> Null,
             layer_count |-> Num(100), object_height |-> Num(20000),
             estimated_time |-> Num(3600)]
      [] filename = FileA /\ source = "gcode-header" ->
            [layer_height |-> Num(200), first_layer_height |-> Null,
             layer_count |-> Num(100), object_height |-> Num(20000),
             estimated_time |-> Null]
      [] filename = FileB /\ source = "api" ->
            [layer_height |-> Num(300), first_layer_height |-> Null,
             layer_count |-> Num(50), object_height |-> Null,
             estimated_time |-> Num(7200)]
      [] filename = FileB /\ source = "gcode-header" ->
            [layer_height |-> Num(300), first_layer_height |-> Null,
             layer_count |-> Null, object_height |-> Null,
             estimated_time |-> Num(7200)]

\* C10: when a metadata resolution for a file completes, the cache's data is
\* exactly what was resolved for that file from the source that answered and
\* its source names that source, or both are null if no source answered,
\* whatever the cache held before; and if the resolution overlapped no other
\* one (it came later than each of them), the cache's filename is that file.
C10_CacheReplaced ==
    ev.op = "metaDone" =>
        /\ metadataCache.source = ev.source
        /\ metadataCache.data =
              IF ev.source = "null" THEN Null
              ELSE <<ResolvedFor(ev.filename, ev.source)>>
        /\ ~ev.ov => metadataCache.filename = ev.filename

\* the resolution for FileB replaces the data resolved for FileA
C10_Witness ==
    /\ ev.op = "metaDone"
    /\ ev.filename = FileB
    /\ ~ev.ov
    /\ ev.replaced = <<ResolvedFor(FileA, "api")>>
    /\ metadataCache.filename = FileB
    /\ metadataCache.data = <<ResolvedFor(FileB, "gcode-header")>>
    /\ metadataCache.source = "gcode-header"

\* C11: a call of ensureMetadataLoaded whose print state is not "printing",
\* whose filename is empty, or that finds the cache holding data under this
\* very filename, issues no metadata request and leaves the cache's filename,
\* data and source as they were.
C11_GateNoOp ==
    [][(/\ ev'.op = "ok"
        /\ \/ ev'.state # "printing"
           \/ ev'.filename = EmptyName
           \/ metadataCache.filename = ev'.filename /\ metadataCache.data # Null) =>
          /\ metadataCache' = metadataCache
          /\ NumAt(polls', "metaApi") = NumAt(polls, "metaApi")
          /\ NumAt(polls', "metaGcode") = NumAt(polls, "metaGcode")]_vars

\* a printing poll for FileA found FileA's metadata in the cache and went on
\* to the motion statistics
C11_Witness ==
    /\ ev.op = "ok"
    /\ ev.state = "printing"
    /\ ev.filename = FileA
    /\ metadataCache.filename = FileA
    /\ metadataCache.data = <<ResolvedFor(FileA, "gcode-header")>>
    /\ Resolving = {}
    /\ \E r \in InFlight : r.pc = "motion" /\ r.filename = FileA

\* C12: a poll waits for the G-code header only after its metadata API
\* request yielded nothing; a resolution that ends at the API's answer stores
\* the API's data tagged "api", one that ends at the header's answer stores
\* the parsed header tagged "gcode-header", and one that ends with both
\* sources failed stores null data and a null source.
C12_SourceOrder ==
    [][/\ NumAt(polls', "metaGcode") > NumAt(polls, "metaGcode") =>
             /\ ev'.op = "apiMiss"
             /\ NumAt(polls', "metaApi") = NumAt(polls, "metaApi") - 1
       /\ ev'.op = "metaDone" =>
             LET f == ev'.filename
                 c == metadataCache'
             IN  /\ c.source = "api" <=> ev'.at = "metaApi"
                 /\ c.source = "api" =>
                        c.data = <<PatchFromFilename(ApiMeta(f), f)>>
                 /\ c.source = "gcode-header" =>
                        c.data = <<PatchFromFilename(HeaderMeta(f), f)>>
                 /\ c.source \in {"api", "gcode-header", "null"}
                 /\ c.source = "null" <=> c.data = Null]_vars

\* the API yielded nothing for FileA and the header was parsed
C12_Witness ==
    /\ ev.op = "metaDone"
    /\ ev.at = "metaGcode"
    /\ ev.filename = FileA
    /\ metadataCache.source = "gcode-header"
    /\ metadataCache.data = <<PatchFromFilename(HeaderMeta(FileA), FileA)>>

C14_FailuresDoNotAbort ==
    [][/\ (\/ ev'.op \in {"apiMiss", "probeFail"}
           \/ ev'.op = "metaDone" /\ ev'.source = "null"
           \/ ev'.op = "render" /\ ev'.failed) =>
             /\ apiRetryCount' = apiRetryCount
             /\ apiRetryTimeout' = apiRetryTimeout
             /\ timers' = timers
             /\ statusText' = statusText \/ ev'.op = "render"
             /\ BagCardinality(polls') = BagCardinality(polls) \/ ev'.op = "render"
       /\ BagCardinality(polls') < BagCardinality(polls) =>
             ev'.op \in {"fail", "badBody", "render"}
       /\ ev'.op = "render" =>
             /\ statusText' = Text(Capitalize(ev'.state))
             /\ BagCardinality(polls') = BagCardinality(polls) - 1]_vars

\* a printing poll whose metadata sources both failed and whose last chamber
\* request failed has rendered "Printing", with no retry pending
C14_Witness ==
    /\ ev.op = "render"
    /\ ev.failed
    /\ ev.state = "printing"
    /\ metadataCache = [filename |-> FileA, data |-> Null, source |-> "null"]
    /\ statusText = Text("Printing")
    /\ apiRetryCount = 0
    /\ timers = {}
    /\ polls = EmptyBag

\* The Z/0.2 fallback: the layer a height above 0 falls in at 0.2 mm a layer
ZFallback(currentZ) ==
    IF currentZ # Null /\ currentZ[1] > 0
    THEN Num(Max(1, currentZ[1] \div 200))
    ELSE Null

\* C15: getLayerInfo returns as current layer the slicer-reported one if
\* there is one, else the metadata-derived one if there is one, else the
\* progress-derived one if there is one, else the Z/0.2 fallback; and as
\* total layer the slicer-reported one, else the metadata-derived one, else
\* the progress-derived one.
C15_LayerPrecedence ==
    (call.fn = "layers" /\ ret # NotReturned) =>
        LET slicerCurrent == asNumber(Coalesce(call.info, SlicerCurrentKeys))
            slicerTotal == asNumber(Coalesce(call.info, SlicerTotalKeys))
            fromMetadata == ret.value.metadataLayer
            fromProgress == ret.value.progressLayer
        IN  /\ ret.value.layers.currentLayer =
                  IF slicerCurrent # Null THEN slicerCurrent
                  ELSE IF fromMetadata.current # Null THEN fromMetadata.current
                  ELSE IF fromProgress.current # Null THEN fromProgress.current
                  ELSE ZFallback(call.currentZ)
            /\ ret.value.layers.totalLayer =
                  IF slicerTotal # Null THEN slicerTotal
                  ELSE IF fromMetadata.total # Null THEN fromMetadata.total
                  ELSE fromProgress.total

\* no slicer value, metadata-derived 9 and progress-derived 12 give 9
C15_Witness ==
    /\ call.fn = "layers"
    /\ ret # NotReturned
    /\ call.info = <<>>
    /\ ret.value.metadataLayer.current = Num(9)
    /\ ret.value.progressLayer.current = Num(12)
    /\ ret.value.layers.currentLayer = Num(9)

\* C16: the current and the total layer getLayerInfo returns are each null
\* or greater than 0.
C16_NoNonPositiveLayer ==
    (call.fn = "layers" /\ ret # NotReturned) =>
        /\ ret.value.layers.currentLayer # Null => ret.value.layers.currentLayer[1] > 0
        /\ ret.value.layers.totalLayer # Null => ret.value.layers.totalLayer[1] > 0

\* C17: where the metadata give a total layer count, the metadata-derived
\* current layer is within 1..total, and so is the progress-derived current
\* layer, for every height and every progress for which they are computed.
C17_CurrentWithinTotal ==
    (call.fn = "layers" /\ ret # NotReturned) =>
        \A l \in {ret.value.metadataLayer, ret.value.progressLayer} :
            (l.total # Null /\ l.current # Null) =>
                l.current[1] >= 1 /\ l.current[1] <= l.total[1]

\* the height is in layer 9 of a print of 4 layers, and the progress of 12 %
\* of 4 layers rounds to 0
C17_Witness ==
    /\ call.fn = "layers"
    /\ ret # NotReturned
    /\ call.currentZ = Num(1800)
    /\ call.progress = Num(12)
    /\ call.metadata = <<[NoFields EXCEPT !.layer_height = Num(200),
                                          !.layer_count = Num(4)]>>
    /\ ret.value.metadataLayer = [current |-> Num(4), total |-> Num(4)]
    /\ ret.value.progressLayer = [current |-> Num(1), total |-> Num(4)]

\* C18: computeRemainingFromProgress returns null for a progress of 0 or
\* less and for a progress of 1 or more, and for a progress p in between and
\* a duration d it returns d / p - d (here in whole seconds: the r with
\* p * (r + d) <= d < p * (r + d + 1)).
C18_RemainingFromProgress ==
    (call.fn = "remaining" /\ ret # NotReturned) =>
        LET p == call.progress
            d == call.printDuration
        IN  IF p <= 0 \/ p >= 100 THEN ret.value = Null
            ELSE /\ ret.value # Null
                 /\ p * (ret.value[1] + d) <= 100 * d
                 /\ 100 * d < p * (ret.value[1] + d + 1)

\* a quarter done after 600 s leaves 1800 s
C18_Witness ==
    /\ call = [fn |-> "remaining", progress |-> 25, printDuration |-> 600]
    /\ ret = Return(Num(1800))

\* the candidates of getSlicerTotalSeconds that are numbers above 0
PositiveAt(values) == {i \in DOMAIN values : values[i] # Null /\ values[i][1] > 0}

\* C19: in a printing poll the slicer remaining time is null if no alias of
\* the total time holds a number above 0, and else it is max(0, total -
\* printDuration) for the first such alias in the order of the metadata
\* aliases followed by the slicer-info aliases; it is never below 0.
C19_SlicerRemaining ==
    (call.fn = "times" /\ call.printStats.state = "printing" /\ ret # NotReturned) =>
        LET values == TimeCandidates(call.metadata, call.printStats.info)
            printDuration == IF call.printStats.print_duration = Null THEN 0
                             ELSE call.printStats.print_duration[1]
        IN  IF PositiveAt(values) = {} THEN ret.value.timeSlicer = Null
            ELSE LET first == CHOOSE i \in PositiveAt(values) :
                                  \A j \in PositiveAt(values) : i <= j
                 IN  /\ ret.value.timeSlicer =
                           Num(Max(0, values[first][1] - printDuration))
                     /\ ret.value.timeSlicer[1] >= 0

\* metadata with estimated_time 0 and slicer_time 1800, slicer info with
\* 5400, and a print that has run for 7200 s: the total is 1800, remaining 0
C19_Witness ==
    /\ call.fn = "times"
    /\ call.printStats.state = "printing"
    /\ call.printStats.print_duration = Num(7200)
    /\ call.printStats.info = [estimated_time |-> Num(5400)]
    /\ call.metadata = <<[estimated_time |-> Num(0), slicer_time |-> Num(1800),
                          print_time |-> Num(900)]>>
    /\ ret # NotReturned
    /\ ret.value.timeSlicer = Num(0)

\* C20: a poll whose print state is neither printing nor paused hands null
\* to all three time fields.
C20_IdleTimesNull ==
    (/\ call.fn = "times"
     /\ call.printStats.state \notin {"printing", "paused"}
     /\ ret # NotReturned) =>
        /\ ret.value.timeEstimate = Null
        /\ ret.value.timeSlicer = Null
        /\ ret.value.timeTotal = Null

\* a returned call of parseGcodeHeader
ParsedHeader == call.fn = "parseGcodeHeader" /\ ret.returned

(* C21: parseGcodeHeader returns null only when no field was populated from  *)
(* the scanned lines; whenever layer_height, first_layer_height,             *)
(* layer_count, object_height or estimated_time was populated, it returns a  *)
(* record that holds that field.                                             *)
C21_NullOnlyWhenNothingMatched ==
    ParsedHeader =>
        \A k \in DOMAIN NoFields :
            ret.scanned[k] # Null =>
                ret.value # Null /\ ret.value[1][k] = ret.scanned[k]

\* round(num / den) for den > 0, said by its bounds
IsRounded(n, num, den) == 2 * den * n <= 2 * num + den /\ 2 * num + den < 2 * den * (n + 1)

Ensured == call.fn = "ensureMetadataLoaded" /\ ret.returned

(* C23: for the filename model_0.28mm_2h15m.gcode, when neither the API nor  *)
(* the header yielded a record, metadata resolution leaves a record with     *)
(* layer_height 0.28 and estimated_time 8100 inferred from the name.         *)
C23_InferredFromNameAlone ==
    (Ensured /\ call.filename = FileD /\ call.metaResult = Null) =>
        /\ ret.value.data # Null
        /\ ret.value.data[1].layer_height = Num(280)
        /\ ret.value.data[1].estimated_time = Num(8100)

\* the seconds of the duration token that begins at s[i], or Null
TokenSecondsAt(s, i) ==
    LET d == DurationGroup(s, i, {"d", "D"})
        h == DurationGroup(s, d[2], {"h", "H"})
        m == DurationGroup(s, h[2], {"m", "M"})
        part(v, k) == IF v = Null THEN 0 ELSE v[1] * k
    IN  IF d[1] = Null /\ h[1] = Null /\ m[1] = Null THEN Null
        ELSE Num(part(d[1], 86400) + part(h[1], 3600) + part(m[1], 60))

\* what the duration tokens of a name amount to, wherever they begin
TokenSeconds(s) == {TokenSecondsAt(s, i) : i \in 1..Len(s)} \ {Null}

(* C24: when the resolved record exists and lacks estimated_time, a duration *)
(* token NdNhNm (any non-empty subset of days, hours, minutes) anywhere in   *)
(* the filename, not only at its start, sets estimated_time to               *)
(* days*86400 + hours*3600 + minutes*60.                                     *)
C24_DurationAnywhere ==
    (/\ Ensured
     /\ call.metaResult # Null
     /\ call.metaResult.data.estimated_time = Null
     /\ TokenSeconds(call.filename) # {}) =>
        ret.value.data[1].estimated_time \in TokenSeconds(call.filename)

(* C29: parseTempEntry returns a reading exactly when the alias chain        *)
(* temperature, temp, current, temper resolves to a finite number; and when  *)
(* the entry has no target field, the target returned equals the current     *)
(* returned, whichever alias supplied the current value.                     *)
C29_ReadingAndDefaultTarget ==
    (call.fn = "parseTempEntry" /\ ret.returned /\ call.entry # Null) =>
        LET resolved == Coalesce(call.entry, CurrentKeys)
        IN  /\ ret.value # Null <=> IsFinite(resolved)
            /\ (/\ ret.value # Null
                /\ \A k \in {"target", "target_temp", "target_temperature"} :
                      call.entry[k] = Null)
                  => ret.value[1].target = ret.value[1].current

(* C25: when getChamberObjectName takes the name from the directory, it     *)
(* takes the entry that matches, letter case apart, the candidate that is    *)
(* earliest in chamberCandidates among those with an entry, wherever the     *)
(* entries stand in the directory, and chamberObjectName holds that entry.   *)
C25_EarliestCandidate ==
    (cev.op \in {"cached", "listed"} /\ cev.objects # Null) =>
        LET objects == cev.objects[1]
            Matches(k, j) == ToLowerCase(objects[k]) = ToLowerCase(chamberCandidates[j])
            HasEntry(j) == \E k \in 1..Len(objects) : Matches(k, j)
        IN  IF cev.selected = Null
            THEN \A j \in 1..Len(chamberCandidates) : ~HasEntry(j)
            ELSE /\ chamberObjectName = cev.selected
                 /\ \E k \in 1..Len(objects), j \in 1..Len(chamberCandidates) :
                       /\ objects[k] = cev.selected
                       /\ Matches(k, j)
                       /\ \A j2 \in 1..(j - 1) : ~HasEntry(j2)

\* the directory lists the fifth candidate ahead of the first, and the first
\* is taken, in the directory's spelling
C25_Witness ==
    /\ cev.op = "listed"
    /\ cev.objects = <<DirEnclosureFirst>>
    /\ cev.selected = DirEnclosureFirst[3]
    /\ chamberObjectName = DirEnclosureFirst[3]

(* C26: once chamberObjectName holds a name it holds that name in every      *)
(* later state, whatever later sensor queries return.                        *)
C26_NameNeverChanges ==
    [][chamberObjectName # Null => chamberObjectName' = chamberObjectName]_vars

(* C27: in the loop over the candidates fetchChamberTemp queries them in the *)
(* order of chamberCandidates; the first reading ends the loop and its       *)
(* candidate is memorized; when no candidate gives a reading the result is   *)
(* null and chamberObjectName is left as it was.                             *)
C27_CandidateLoop ==
    /\ \A t \in BagToSet(chambers) :
          t.pc = "candidate" =>
              /\ t.failed = SubSeq(chamberCandidates, 1, Len(t.failed))
              /\ t.name = chamberCandidates[Len(t.failed) + 1]
    /\ (cev.op = "done" /\ cev.by = "candidate") =>
          /\ cev.failed = SubSeq(chamberCandidates, 1, Len(cev.failed))
          /\ IF cev.temps = "reading"
             THEN /\ cev.name = chamberCandidates[Len(cev.failed) + 1]
                  /\ chamberObjectName = cev.name
             ELSE /\ cev.failed = chamberCandidates
                  /\ chamberObjectName = cev.before

\* the directory has no candidate, the first candidate gives no reading and
\* the second does
C27_Witness ==
    /\ cev.op = "done"
    /\ cev.by = "candidate"
    /\ cev.temps = "reading"
    /\ cev.failed = <<chamberCandidates[1]>>
    /\ cev.before = Null
    /\ objectListCache = <<DirNoSensor>>
    /\ chamberObjectName = chamberCandidates[2]

(* C28: once a directory request issued at time t was stored, every call of  *)
(* fetchObjectList before t + 30000 ms returns the stored list without a     *)
(* request, also when invocations of updateChamber overlap, and a call at or *)
(* after t + 30000 ms issues a request; t is the latest such time.           *)
C28_DirectoryTtl ==
    (cev.op \in {"cached", "request"} /\ cev.last # Null) =>
        (cev.op = "cached" <=> cev.at < cev.last[1] + ObjectListTtl)

(* C30: every invocation of fetchPrintStatus that ends has run               *)
(* updateChamber, whether its status request succeeded or failed.            *)
C30_ChamberEveryCycle ==
    [][BagCardinality(polls') < BagCardinality(polls)
          => \E r \in InFlight : r.pc = "chamber" /\ polls' = Ended(r)]_vars

(* C34: when print_stats.info carries no layer value and getLayerInfo        *)
(* returns a current and a total layer, the current layer is at most the     *)
(* total, for every metadata, height and progress, also when the current     *)
(* layer comes from the fallback of 0.2 mm per layer.                        *)
C34_ShownLayerWithinTotal ==
    (/\ call.fn = "layers"
     /\ ret # NotReturned
     /\ \A k \in DOMAIN call.info : Nullish(call.info[k])
     /\ ret.value.layers.currentLayer # Null
     /\ ret.value.layers.totalLayer # Null) =>
        ret.value.layers.currentLayer[1] <= ret.value.layers.totalLayer[1]

(* C33: a successful poll leaves no retry outstanding: when a status request *)
(* has succeeded and the retry counter is 0, no retry timer that an earlier  *)
(* failure set is still pending.                                             *)
C33_NoStaleRetryTimer ==
    (ev.op = "ok" /\ apiRetryCount = 0) => timers = {}

(* C31: under any interleaving of polls, when a poll has come to compute its *)
(* layers and times and the cache holds data, the data were resolved for the *)
(* filename the cache holds; and when a resolution completes, the data it    *)
(* stores are not left under the filename of a newer resolution.             *)
C31_DataOfCachedFilename ==
    (ev.op \in {"render", "metaDone"} /\ metadataCache.data # Null) =>
        /\ metadataCache.filename \in Files
        /\ \E source \in {"api", "gcode-header"} :
              metadataCache.data = <<ResolvedFor(metadataCache.filename, source)>>

(* C32: after any sequence of printing polls with changes of the filename    *)
(* and completions of thumbnail loads in any order, the image and the label  *)
(* that are shown belong to the filename the element is marked as loaded     *)
(* for: the completion of a load for a superseded filename is discarded.     *)
C32_ShownBelongsToLoadedFor ==
    thumbShown => thumbSrc = loadedFor /\ thumbLabel = loadedFor

====
